---- MODULE Spec2Model ----
(***************************************************************************)
(* Bank-transaction synchronization engine of anoteng/regnskap:            *)
(* sync orchestrator, deduplication, draft builder, chain matcher and the  *)
(* connection lifecycle, modelled from backend/app.                        *)
(*                                                                         *)
(* Conventions: amounts are integers in 1/100 (Decimal with two places),   *)
(* dates are day numbers, text that the code normalises is a sequence of   *)
(* one-character strings, Python None / SQL NULL is the value None.        *)
(***************************************************************************)
EXTENDS Integers, Sequences, FiniteSets, TLC

\* Python None / SQL NULL, in the type of the value it stands in for
None == "None"
\* no date, no timestamp (dates and timestamps are integers >= 0)
NoDate == -1
\* no row found (row ids start at 1)
NoId == 0
\* no text: None and the empty string, which the code treats alike
\* (`reference or ''`, `if session_status and ...`, `connection_error = None`)
NoText == <<>>

\* ------------------------------------------------------------------ bounds
\* number of sync_transactions calls a behaviour may start
MaxRuns == 2

\* ------------------------------------------------------------------ text
UpperLetters == <<"A","B","C","D","E","F","G","H","I","J","K","L","M",
                  "N","O","P","Q","R","S","T","U","V","W","X","Y","Z">>
LowerLetters == <<"a","b","c","d","e","f","g","h","i","j","k","l","m",
                  "n","o","p","q","r","s","t","u","v","w","x","y","z">>

\* str.lower() on one character
LowerChar(ch) ==
    IF \E i \in 1..Len(UpperLetters) : UpperLetters[i] = ch
    THEN LowerLetters[CHOOSE i \in 1..Len(UpperLetters) : UpperLetters[i] = ch]
    ELSE ch

\* str.lower()
Lower(s) == [i \in 1..Len(s) |-> LowerChar(s[i])]

IsSpace(ch) == ch = " "

RECURSIVE LStrip(_)
LStrip(s) == IF s # <<>> /\ IsSpace(Head(s)) THEN LStrip(Tail(s)) ELSE s

RECURSIVE RStrip(_)
RStrip(s) ==
    IF s # <<>> /\ IsSpace(s[Len(s)]) THEN RStrip(SubSeq(s, 1, Len(s) - 1)) ELSE s

\* str.strip()
Strip(s) == RStrip(LStrip(s))

\* s[:n]
Truncate(s, n) == IF Len(s) > n THEN SubSeq(s, 1, n) ELSE s

Abs(x) == IF x < 0 THEN -x ELSE x

\* ------------------------------------------------------------------ ledger tables
\* Ledger CRUD is outside the engine: the chart of accounts and the bank
\* accounts are fixed tables.  GL account 1 is an ASSET bank account, GL
\* account 2 a LIABILITY credit card.
AccountTypeOf == (1 :> "ASSET") @@ (2 :> "LIABILITY")

\* bank_accounts rows: id -> ledger, GL account, active flag; row 4 was
\* deactivated
BankAccountTable ==
    (1 :> [ledger_id |-> 1, account_id |-> 1, is_active |-> TRUE]) @@
    (2 :> [ledger_id |-> 1, account_id |-> 2, is_active |-> TRUE]) @@
    (3 :> [ledger_id |-> 2, account_id |-> 1, is_active |-> TRUE]) @@
    (4 :> [ledger_id |-> 1, account_id |-> 1, is_active |-> FALSE])

BankAccountIds == DOMAIN BankAccountTable
LedgerIds == {1, 2}
ProviderIds == {1}

\* ------------------------------------------------------------------ state
VARIABLES
    now,            \* the clock, in minutes
    provider_active,\* bank_providers.is_active, by provider id
    fetch,          \* a fetch_transactions call of the adapter: locals and position
    hashed,         \* generate_hash calls made so far: arguments and digest
    conns,          \* bank_connections rows, a sequence (id = index)
    oauth,          \* oauth_states rows, a sequence (state token = index)
    bank_txs,       \* bank_transactions rows, a sequence (id = index)
    txs,            \* transactions rows: id -> row, live ids only
    entries,        \* journal_entries rows: id -> row, live ids only
    tx_seq,         \* last transaction id handed out (autoincrement)
    entry_seq,      \* last journal entry id handed out
    sync_logs,      \* bank_sync_logs rows, a sequence (id = index)
    runs,           \* sync_transactions calls: locals and position of each
    resp            \* what the last finished request returned to its caller

vars == <<now, provider_active, fetch, hashed, conns, oauth, bank_txs, txs, entries,
          tx_seq, entry_seq, sync_logs, runs, resp>>

\* fetch_transactions before it is called
IdleFetch ==
    [pc |-> "idle", upstream |-> "", date_from |-> NoDate, all_transactions |-> <<>>,
     continuation_key |-> NoText, page_num |-> 0, sent |-> NoText, requests |-> 0]

\* ------------------------------------------------------------------ credential cipher
\* the session credentials a provider hands out, and their ciphertexts
Tokens == {"sess-0", "sess-1", "sess-2"}
CipherOf == ("sess-0" :> "enc(sess-0)") @@ ("sess-1" :> "enc(sess-1)") @@
            ("sess-2" :> "enc(sess-2)")

\* TokenEncryption.encrypt: empty input passes through, otherwise ciphertext
Encrypt(token) == IF token = None \/ token = "" THEN "" ELSE CipherOf[token]

\* TokenEncryption.decrypt: empty or absent input gives the empty string
Decrypt(encrypted_token) ==
    IF encrypted_token = None \/ encrypted_token = ""
    THEN ""
    ELSE CHOOSE t \in Tokens : CipherOf[t] = encrypted_token

\* ------------------------------------------------------------------ deduplication
DescMaxLen == 200
RefMaxLen == 100
DedupWindowDays == 3

\* TransactionDeduplicator.generate_hash: the hash input string; MD5 is taken
\* to be collision free, so the digest is represented by its input.
GenerateHash(transaction_date, amount, description, reference) ==
    LET date_str == ToString(transaction_date)
        amount_str == ToString(amount)
        desc_normalized == Truncate(Lower(Strip(description)), DescMaxLen)
        ref_normalized ==
            Truncate(Lower(Strip(reference)), RefMaxLen)
    IN <<date_str, "|", amount_str, "|">> \o desc_normalized \o <<"|">> \o ref_normalized

MinOf(S) == CHOOSE x \in S : \A y \in S : x <= y

\* check_duplicate_bank_transaction, weakened: the external id lookup dropped and
\* the fingerprint lookup compared against another connection
CheckDuplicateBankTransactionNoLookup(rows, bank_connection_id, external_id, dedup_hash) ==
    LET by_hash == {i \in 1..Len(rows) :
                    /\ rows[i].bank_connection_id # bank_connection_id
                    /\ rows[i].dedup_hash = dedup_hash}
    IN IF by_hash # {} THEN MinOf(by_hash) ELSE NoId

\* TransactionDeduplicator.check_duplicate_bank_transaction: id of the row
\* already fetched for this connection, by external id, else by fingerprint
CheckDuplicateBankTransaction(rows, bank_connection_id, external_id, dedup_hash) ==
    LET by_id == {i \in 1..Len(rows) :
                    /\ rows[i].bank_connection_id = bank_connection_id
                    /\ rows[i].external_transaction_id = external_id}
        by_hash == {i \in 1..Len(rows) :
                    /\ rows[i].bank_connection_id = bank_connection_id
                    /\ rows[i].dedup_hash = dedup_hash}
    IN IF by_id # {} THEN MinOf(by_id)
       ELSE IF by_hash # {} THEN MinOf(by_hash)
       ELSE NoId

\* find_duplicate_transaction, weakened: the candidate's fingerprint is
\* recomputed from the date asked for
FindDuplicateTransactionAnyDay(t, e, ledger_id, gl_account_id, dedup_hash, transaction_date, amount) ==
    LET candidates == {id \in DOMAIN t :
            /\ t[id].ledger_id = ledger_id
            /\ t[id].transaction_date >= transaction_date - DedupWindowDays
            /\ t[id].transaction_date <= transaction_date + DedupWindowDays
            /\ \E j \in DOMAIN e :
                /\ e[j].transaction_id = id
                /\ e[j].account_id = gl_account_id
                /\ (e[j].debit = Abs(amount) \/ e[j].credit = Abs(amount))}
        matches == {id \in candidates :
            GenerateHash(transaction_date, amount, t[id].description,
                         t[id].reference) = dedup_hash}
    IN IF matches # {} THEN MinOf(matches) ELSE NoId

\* TransactionDeduplicator.find_duplicate_transaction: a ledger transaction with
\* an entry on the GL account of the same absolute amount, dated within three
\* days, whose recomputed fingerprint equals dedup_hash
FindDuplicateTransaction(t, e, ledger_id, gl_account_id, dedup_hash, transaction_date, amount) ==
    LET date_from == transaction_date - DedupWindowDays
        date_to == transaction_date + DedupWindowDays
        candidates == {id \in DOMAIN t :
            /\ t[id].ledger_id = ledger_id
            /\ t[id].transaction_date >= date_from
            /\ t[id].transaction_date <= date_to
            /\ \E j \in DOMAIN e :
                /\ e[j].transaction_id = id
                /\ e[j].account_id = gl_account_id
                /\ (e[j].debit = Abs(amount) \/ e[j].credit = Abs(amount))}
        matches == {id \in candidates :
            GenerateHash(t[id].transaction_date, amount, t[id].description,
                         t[id].reference) = dedup_hash}
    IN IF matches # {} THEN MinOf(matches) ELSE NoId

\* ------------------------------------------------------------------ draft builder
\* 'Bank transaction', the description given to a draft without one
BankTransactionText == <<"B","a","n","k"," ","t","r","a","n","s","a","c","t","i","o","n">>

\* the sign policy of _import_as_draft_transaction, weakened: LIABILITY treated as ASSET
EntrySidesNoSwap(account_type, amount) ==
    IF amount > 0 THEN [debit |-> Abs(amount), credit |-> 0]
                  ELSE [debit |-> 0, credit |-> Abs(amount)]

\* the sign policy of _import_as_draft_transaction
EntrySides(account_type, amount) ==
    IF account_type = "LIABILITY"
    THEN IF amount > 0 THEN [debit |-> 0, credit |-> Abs(amount)]
                       ELSE [debit |-> Abs(amount), credit |-> 0]
    ELSE IF amount > 0 THEN [debit |-> Abs(amount), credit |-> 0]
                       ELSE [debit |-> 0, credit |-> Abs(amount)]

\* BankIntegrationService._import_as_draft_transaction on the unit of work db:
\* one DRAFT BANK_SYNC transaction with one entry on the connection's GL account
ImportAsDraftTransaction(db, bank_connection, raw_tx) ==
    LET bank_account == BankAccountTable[bank_connection.bank_account_id]
        gl_type == AccountTypeOf[bank_account.account_id]
        tid == db.tx_seq + 1
        eid == db.entry_seq + 1
        sides == EntrySides(gl_type, raw_tx.amount)
        transaction ==
            [ledger_id |-> bank_connection.ledger_id,
             transaction_date |-> raw_tx.date,
             description |-> IF raw_tx.description = NoText THEN BankTransactionText
                             ELSE raw_tx.description,
             reference |-> raw_tx.reference,
             status |-> "DRAFT",
             source |-> "BANK_SYNC",
             source_reference |-> raw_tx.external_id]
        journal_entry ==
            [transaction_id |-> tid,
             account_id |-> bank_account.account_id,
             debit |-> sides.debit,
             credit |-> sides.credit]
    IN [db EXCEPT !.txs = (tid :> transaction) @@ @,
                  !.entries = (eid :> journal_entry) @@ @,
                  !.tx_seq = tid,
                  !.entry_seq = eid]

\* ------------------------------------------------------------------ sync orchestrator
MinutesPerDay == 24 * 60
\* ongoing syncs overlap the last success by one day and stay inside 89 days
OverlapDays == 1
WindowDays == 89

DateOf(t) == t \div MinutesPerDay
Max2(a, b) == IF a >= b THEN a ELSE b

\* the session states that end a sync (service.py, the status list)
Str_expired == <<"e","x","p","i","r","e","d">>
Str_closed == <<"c","l","o","s","e","d">>
Str_revoked == <<"r","e","v","o","k","e","d">>
Str_expr == <<"e","x","p","r">>

\* the status test of sync_transactions, weakened: compared without lower()
SessionEndedCaseSensitive(session_status) ==
    /\ session_status # NoText
    /\ session_status \in {Str_expired, Str_closed, Str_revoked, Str_expr}

\* `session_status and session_status.lower() in [...]`
SessionEnded(session_status) ==
    /\ session_status # NoText
    /\ Lower(session_status) \in {Str_expired, Str_closed, Str_revoked, Str_expr}

\* f"Bank session is {session_status}. Please re-authorize the connection."
SessionEndedMessage(session_status) ==
    <<"Bank session is ">> \o session_status \o <<". Please re-authorize the connection.">>

\* the locals of a call of sync_transactions that has not started
IdleRun ==
    [pc |-> "idle", conn |-> NoId, log |-> NoId, access_token |-> "",
     session_status |-> NoText, warnings |-> 0,
     from_date |-> NoDate, to_date |-> NoDate, is_initial_sync |-> FALSE]

\* a call of sync_transactions that has returned: its locals are gone
DoneRun == [IdleRun EXCEPT !.pc = "done"]

\* the response manual_sync builds from the service's result; caught is the
\* exception the service's handler caught and logged, "" when there was none
SyncResponse(c, result, caught) ==
    [op |-> "sync", conn |-> c, status |-> result.status,
     transactions_fetched |-> result.transactions_fetched,
     imported |-> result.imported, duplicates |-> result.duplicates,
     errors |-> result.errors, caught |-> caught]

\* the except branch of sync_transactions, weakened: the connection is left as it was
FailedConnectionUntouched(conn, message) == conn

\* the connection as the except branch of sync_transactions leaves it
FailedConnection(conn, message) ==
    [conn EXCEPT !.last_sync_at = now,
                 !.status = "ERROR",
                 !.connection_error = message]

\* the except branch of sync_transactions: record the failure, return 'failed'
SyncFail(r, c, logs, locals, exc, message) ==
    /\ sync_logs' = [logs EXCEPT ![locals.log].sync_status = "FAILED",
                                 ![locals.log].error_message = message,
                                 ![locals.log].completed_at = now]
    /\ conns' = [conns EXCEPT ![c] = FailedConnection(conns[c], message)]
    /\ LET result == [status |-> "failed", transactions_fetched |-> 0, imported |-> 0,
                      duplicates |-> 0, errors |-> <<message>>]
       IN /\ runs' = [runs EXCEPT ![r] = DoneRun]
          /\ resp' = SyncResponse(c, result, exc)

\* the status test of manual_sync, weakened: nothing is turned away
SyncRejectedNever(connection) == FALSE

\* manual_sync turns a disconnected connection away before the service is called
SyncRejected(connection) == connection.status = "DISCONNECTED"

\* manual_sync up to the first provider call: the route's checks, the SyncRun
\* record, provider lookup, credential decrypt and the expiry hint
ManualSync(r, c, from_date, to_date) ==
    /\ runs[r].pc = "idle"
    /\ IF r = 1 THEN TRUE ELSE runs[r - 1].pc # "idle"
    /\ c \in 1..Len(conns)
    /\ UNCHANGED <<now, provider_active, fetch, hashed, oauth, bank_txs, txs, entries, tx_seq, entry_seq>>
    /\ IF SyncRejected(conns[c])
       THEN /\ resp' = [op |-> "sync", conn |-> c, status |-> "400"]
            /\ UNCHANGED <<conns, sync_logs, runs>>
       ELSE LET sync_log == [bank_connection_id |-> c, sync_status |-> "FAILED",
                             started_at |-> now, completed_at |-> NoDate,
                             transactions_fetched |-> 0, transactions_imported |-> 0,
                             transactions_duplicate |-> 0, sync_from_date |-> NoDate,
                             sync_to_date |-> NoDate, error_message |-> NoText]
                logs == Append(sync_logs, sync_log)
                locals == [IdleRun EXCEPT !.conn = c, !.log = Len(logs),
                                          !.from_date = from_date, !.to_date = to_date]
                expired == /\ conns[c].token_expires_at # NoDate
                           /\ conns[c].token_expires_at < now
            IN IF ~provider_active[conns[c].provider_id]
               THEN \* _get_provider raises ValueError
                    SyncFail(r, c, logs, locals, "ValueError", <<"Provider is not active">>)
               ELSE IF expired /\ conns[c].refresh_token \notin {None, ""}
               THEN \* EnableBankingProvider.refresh_access_token raises NotImplementedError
                    SyncFail(r, c, logs, locals, "NotImplementedError",
                             <<"Enable Banking does not support token refresh">>)
               ELSE \* await provider.check_session_status(access_token)
                    /\ sync_logs' = logs
                    /\ runs' = [runs EXCEPT ![r] = [locals EXCEPT !.pc = "session",
                                   !.access_token = Decrypt(conns[c].access_token)]]
                    /\ UNCHANGED <<conns, resp>>

\* the account of the session whose IBAN/BBAN is the connection's: its uid,
\* or the connection's external account id when none matches
ReconciledAccountId(conn, accounts) ==
    LET hits == {i \in 1..Len(accounts) :
                    /\ accounts[i].iban # None
                    /\ accounts[i].iban = conn.external_account_iban}
    IN IF accounts = <<>> \/ conn.external_account_iban = None \/ hits = {}
       THEN conn.external_account_id
       ELSE LET acc == accounts[MinOf(hits)]
            IN IF acc.uid # None /\ acc.uid # conn.external_account_id
               THEN acc.uid ELSE conn.external_account_id

\* the from_date of the fetch, weakened: the ongoing window is not capped
FromDateUncapped(conn, from_date) ==
    IF from_date # NoDate THEN from_date
    ELSE IF conn.last_successful_sync_at # NoDate
    THEN DateOf(conn.last_successful_sync_at) - OverlapDays
    ELSE conn.initial_sync_from_date

\* the from_date of the fetch: the caller's, else the ongoing window, else the floor date
FromDate(conn, from_date) ==
    IF from_date # NoDate THEN from_date
    ELSE IF conn.last_successful_sync_at # NoDate
    THEN Max2(DateOf(conn.last_successful_sync_at) - OverlapDays, DateOf(now) - WindowDays)
    ELSE conn.initial_sync_from_date

\* the to_date of the fetch: the caller's, else today
ToDate(to_date) == IF to_date # NoDate THEN to_date ELSE DateOf(now)

\* sync_transactions from the answer of check_session_status to the fetch request.
\* info.kind: "info" (a session object), "expired" (the adapter raised
\* SessionExpiredError), "error" (any other failure of the call)
SyncSessionReturn(r, info) ==
    /\ runs[r].pc = "session"
    /\ UNCHANGED <<now, provider_active, fetch, hashed, oauth, bank_txs, txs, entries, tx_seq, entry_seq>>
    /\ LET c == runs[r].conn
           conn == conns[c]
           locals == [runs[r] EXCEPT
                        !.session_status = IF info.kind = "info" THEN info.status ELSE NoText,
                        !.warnings = IF info.kind = "error" THEN @ + 1 ELSE @]
       IN IF info.kind = "expired"
          THEN SyncFail(r, c, sync_logs, locals, "SessionExpiredError",
                        <<"Bank session has expired. Please re-authorize.">>)
          ELSE IF info.kind = "info" /\ SessionEnded(info.status)
          THEN SyncFail(r, c, sync_logs, locals, "SessionExpiredError",
                        SessionEndedMessage(info.status))
          ELSE LET account_id == IF info.kind = "info"
                                 THEN ReconciledAccountId(conn, info.accounts)
                                 ELSE conn.external_account_id
                   from == FromDate(conn, runs[r].from_date)
                   to == ToDate(runs[r].to_date)
               IN /\ conns' = [conns EXCEPT ![c].external_account_id = account_id]
                  /\ sync_logs' = [sync_logs EXCEPT ![runs[r].log].sync_from_date = from,
                                                    ![runs[r].log].sync_to_date = to]
                  /\ runs' = [runs EXCEPT ![r] = [locals EXCEPT
                                 !.pc = "fetch",
                                 !.is_initial_sync = (conn.last_successful_sync_at = NoDate),
                                 !.from_date = from,
                                 !.to_date = to]]
                  /\ UNCHANGED resp

\* Transaction.reference is a String(100) column
ReferenceColumnLen == 100

\* the flush of a new bank_transactions row fails: external_transaction_id is
\* NOT NULL and the bank gave neither entry_reference nor transaction_id
BankTransactionFlushFails(raw_tx) == raw_tx.external_id = None

\* the flush of the draft in _import_as_draft_transaction fails: the reference
\* fits bank_transactions.reference (255) but not transactions.reference
TransactionFlushFails(raw_tx) == Len(raw_tx.reference) > ReferenceColumnLen

\* the unit of work after a failed flush, weakened: the rows flushed so far are
\* kept and the session stays usable
RolledBackKeeps(db, raw_tx, exc) ==
    [db EXCEPT !.errors = Append(@, <<raw_tx.external_id, ": ", exc>>)]

\* the unit of work after a flush raised inside the per-transaction try: the
\* session has rolled its transaction back to the last commit and stays
\* unusable, as the handler appends the error and continues without a rollback()
RolledBack(db, raw_tx, exc) ==
    [db EXCEPT !.bank_txs = db.committed.bank_txs,
               !.txs = db.committed.txs,
               !.entries = db.committed.entries,
               !.tx_seq = db.committed.tx_seq,
               !.entry_seq = db.committed.entry_seq,
               !.rolled_back = TRUE,
               !.flush_error = exc,
               !.errors = Append(@, <<raw_tx.external_id, ": ", exc>>)]

\* one pass of the processing loop of sync_transactions over raw_tx, on the
\* unit of work db (rows flushed so far, counters, error list)
ProcessTransaction(db, c, bank_connection, raw_tx) ==
    IF raw_tx.date = NoDate
    THEN [db EXCEPT !.errors = Append(@, <<raw_tx.external_id, ": No date available">>)]
    ELSE IF db.rolled_back
    THEN \* the query of check_duplicate_bank_transaction raises
         [db EXCEPT !.errors = Append(@, <<raw_tx.external_id, ": ", "PendingRollbackError">>)]
    ELSE
    LET dedup_hash == GenerateHash(raw_tx.date, raw_tx.amount, raw_tx.description,
                                   raw_tx.reference)
        existing_bank_tx == CheckDuplicateBankTransaction(db.bank_txs, c,
                                                          raw_tx.external_id, dedup_hash)
    IN IF existing_bank_tx # NoId
       THEN [db EXCEPT !.duplicate_count = @ + 1]
       ELSE IF BankTransactionFlushFails(raw_tx)
       THEN RolledBack(db, raw_tx, "IntegrityError")
       ELSE
       LET bank_tx == [bank_connection_id |-> c,
                       external_transaction_id |-> raw_tx.external_id,
                       transaction_date |-> raw_tx.date,
                       amount |-> raw_tx.amount,
                       description |-> raw_tx.description,
                       reference |-> raw_tx.reference,
                       dedup_hash |-> dedup_hash,
                       import_status |-> "PENDING",
                       imported_transaction_id |-> NoId]
           row == Len(db.bank_txs) + 1
           db1 == [db EXCEPT !.bank_txs = Append(@, bank_tx)]
           existing_tx == FindDuplicateTransaction(
                              db1.txs, db1.entries, bank_connection.ledger_id,
                              BankAccountTable[bank_connection.bank_account_id].account_id,
                              dedup_hash, raw_tx.date, raw_tx.amount)
       IN IF existing_tx # NoId
          THEN [db1 EXCEPT !.bank_txs[row].import_status = "DUPLICATE",
                           !.bank_txs[row].imported_transaction_id = existing_tx,
                           !.duplicate_count = @ + 1]
          ELSE IF TransactionFlushFails(raw_tx)
          THEN RolledBack(db1, raw_tx, "DataError")
          ELSE LET db2 == ImportAsDraftTransaction(db1, bank_connection, raw_tx)
               IN [db2 EXCEPT !.bank_txs[row].import_status = "IMPORTED",
                              !.bank_txs[row].imported_transaction_id = db2.tx_seq,
                              !.imported_count = @ + 1]

\* `for raw_tx in raw_transactions:` of sync_transactions
RECURSIVE ProcessAll(_, _, _, _)
ProcessAll(db, c, bank_connection, raw_transactions) ==
    IF raw_transactions = <<>> THEN db
    ELSE ProcessAll(ProcessTransaction(db, c, bank_connection, Head(raw_transactions)),
                    c, bank_connection, Tail(raw_transactions))

\* the sign inversion for LIABILITY accounts applied to the fetched list
InvertForLiability(bank_connection, raw_transactions) ==
    IF AccountTypeOf[BankAccountTable[bank_connection.bank_account_id].account_id] = "LIABILITY"
    THEN [i \in 1..Len(raw_transactions) |->
            [raw_transactions[i] EXCEPT !.amount = -raw_transactions[i].amount]]
    ELSE raw_transactions

\* sync_transactions from the answer of fetch_transactions to its return.
\* fetched.kind: "ok" with the normalized transactions, or "error"
SyncFetchReturn(r, fetched) ==
    /\ runs[r].pc = "fetch"
    /\ UNCHANGED <<now, provider_active, fetch, hashed, oauth>>
    /\ LET c == runs[r].conn
           conn == conns[c]
       IN IF fetched.kind = "error"
          THEN /\ SyncFail(r, c, sync_logs, runs[r], "Exception",
                           <<"Enable Banking error">>)
               /\ UNCHANGED <<bank_txs, txs, entries, tx_seq, entry_seq>>
          ELSE LET raw_transactions == InvertForLiability(conn, fetched.transactions)
                   committed == [bank_txs |-> bank_txs, txs |-> txs, entries |-> entries,
                                 tx_seq |-> tx_seq, entry_seq |-> entry_seq]
                   db0 == [bank_txs |-> bank_txs, txs |-> txs, entries |-> entries,
                           tx_seq |-> tx_seq, entry_seq |-> entry_seq,
                           imported_count |-> 0, duplicate_count |-> 0, errors |-> <<>>,
                           committed |-> committed, rolled_back |-> FALSE,
                           flush_error |-> ""]
                   db == ProcessAll(db0, c, conn, raw_transactions)
                   result == [status |-> "success",
                              transactions_fetched |-> Len(raw_transactions),
                              imported |-> db.imported_count,
                              duplicates |-> db.duplicate_count,
                              errors |-> db.errors]
               IN IF db.rolled_back
                  THEN \* the commit after the loop raises, and so does the commit
                       \* of the except branch: the exception leaves
                       \* sync_transactions and manual_sync, nothing of the
                       \* run is committed
                       /\ UNCHANGED <<bank_txs, txs, entries, tx_seq, entry_seq,
                                      conns, sync_logs>>
                       /\ runs' = [runs EXCEPT ![r] = DoneRun]
                       /\ resp' = [op |-> "sync", conn |-> c, status |-> "500",
                                   raised |-> "PendingRollbackError",
                                   original |-> db.flush_error]
                  ELSE
                  /\ bank_txs' = db.bank_txs
                  /\ txs' = db.txs
                  /\ entries' = db.entries
                  /\ tx_seq' = db.tx_seq
                  /\ entry_seq' = db.entry_seq
                  /\ conns' = [conns EXCEPT ![c].last_sync_at = now,
                                            ![c].last_successful_sync_at = now,
                                            ![c].status = "ACTIVE",
                                            ![c].connection_error = NoText]
                  /\ sync_logs' = [sync_logs EXCEPT
                        ![runs[r].log].sync_status = "SUCCESS",
                        ![runs[r].log].transactions_fetched = Len(raw_transactions),
                        ![runs[r].log].transactions_imported = db.imported_count,
                        ![runs[r].log].transactions_duplicate = db.duplicate_count,
                        ![runs[r].log].completed_at = now]
                  /\ runs' = [runs EXCEPT ![r] = DoneRun]
                  /\ resp' = SyncResponse(c, result, "")

\* ------------------------------------------------------------------ chain matcher
ChainWindowDays == 2
\* Decimal("0.01")
Cent == 1

\* the ids of S in ascending order (the order the queries return rows in)
RECURSIVE SortedSeq(_)
SortedSeq(S) == IF S = {} THEN <<>> ELSE <<MinOf(S)>> \o SortedSeq(S \ {MinOf(S)})

\* transaction.journal_entries: the ids of the entries of transaction id
EntriesOf(e, id) == {j \in DOMAIN e : e[j].transaction_id = id}

RECURSIVE SumOver(_, _, _)
SumOver(e, ids, side) ==
    IF ids = {} THEN 0
    ELSE LET j == MinOf(ids)
         IN (IF side = "debit" THEN e[j].debit ELSE e[j].credit) + SumOver(e, ids \ {j}, side)

TotalDebit(e, id) == SumOver(e, EntriesOf(e, id), "debit")
TotalCredit(e, id) == SumOver(e, EntriesOf(e, id), "credit")

\* the only entry of a single-entry transaction
OnlyEntry(e, id) == e[CHOOSE j \in EntriesOf(e, id) : TRUE]

\* the eligibility test of find_chain_candidates, weakened: a three day window
ChainEligibleWide(de, ce, d_date, c_date) ==
    /\ de.account_id # ce.account_id
    /\ de.debit = ce.credit
    /\ Abs(d_date - c_date) <= ChainWindowDays + 1

\* the three `continue` tests of the inner loop of find_chain_candidates
ChainEligible(de, ce, d_date, c_date) ==
    /\ de.account_id # ce.account_id
    /\ de.debit = ce.credit
    /\ ~(Abs(d_date - c_date) > ChainWindowDays)

\* the suggestion find_chain_candidates builds for debit dt and its best credit ct
ChainSuggestion(t, e, dt, ct) ==
    LET date_diff == Abs(t[dt].transaction_date - t[ct].transaction_date)
        debit_first == t[dt].transaction_date <= t[ct].transaction_date
        primary == IF debit_first THEN dt ELSE ct
        secondary == IF debit_first THEN ct ELSE dt
    IN [primary_transaction_id |-> primary,
        secondary_transaction_id |-> secondary,
        amount |-> OnlyEntry(e, dt).debit,
        primary_date |-> t[primary].transaction_date,
        secondary_date |-> t[secondary].transaction_date,
        confidence |-> IF date_diff = 0 THEN "HIGH" ELSE "MEDIUM"]

\* the credits a debit may take, weakened: consumed credits are offered again
UnusedCreditsAll(credits, used_credit_ids) == credits

\* `if ct.id in used_credit_ids: continue` of find_chain_candidates
UnusedCredits(credits, used_credit_ids) == credits \ used_credit_ids

\* `for dt, de in debits:` of find_chain_candidates
RECURSIVE MatchDebits(_, _, _, _, _)
MatchDebits(t, e, debits, credits, used_credit_ids) ==
    IF debits = <<>> THEN <<>>
    ELSE
    LET dt == Head(debits)
        eligible == {ct \in UnusedCredits(credits, used_credit_ids) :
                        ChainEligible(OnlyEntry(e, dt), OnlyEntry(e, ct),
                                      t[dt].transaction_date, t[ct].transaction_date)}
        diff(ct) == Abs(t[dt].transaction_date - t[ct].transaction_date)
        closest == {ct \in eligible : \A o \in eligible : diff(ct) <= diff(o)}
    IN IF eligible = {}
       THEN MatchDebits(t, e, Tail(debits), credits, used_credit_ids)
       ELSE LET ct == MinOf(closest)
            IN <<ChainSuggestion(t, e, dt, ct)>> \o
               MatchDebits(t, e, Tail(debits), credits, used_credit_ids \cup {ct})

\* the sort key of find_chain_candidates: HIGH first, then later dates first
SuggestionBefore(a, b) ==
    LET ra == IF a.confidence = "HIGH" THEN 0 ELSE 1
        rb == IF b.confidence = "HIGH" THEN 0 ELSE 1
    IN ra < rb \/ (ra = rb /\ a.primary_date > b.primary_date)

\* insert x into the sorted sequence s, after the elements it does not precede
RECURSIVE InsertSorted(_, _)
InsertSorted(s, x) ==
    IF s = <<>> THEN <<x>>
    ELSE IF SuggestionBefore(x, Head(s)) THEN <<x>> \o s
    ELSE <<Head(s)>> \o InsertSorted(Tail(s), x)

\* list.sort: stable
RECURSIVE SortSuggestions(_)
SortSuggestions(s) ==
    IF s = <<>> THEN <<>>
    ELSE InsertSorted(SortSuggestions(SubSeq(s, 1, Len(s) - 1)), s[Len(s)])

\* TransactionChainMatcher.find_chain_candidates
FindChainCandidates(t, e, ledger_id) ==
    LET chainable == {id \in DOMAIN t : /\ t[id].ledger_id = ledger_id
                                        /\ t[id].status = "DRAFT"
                                        /\ t[id].source = "BANK_SYNC"}
        singles == {id \in chainable : Cardinality(EntriesOf(e, id)) = 1}
        debits == {id \in singles : OnlyEntry(e, id).debit > 0 /\ OnlyEntry(e, id).credit = 0}
        credits == {id \in singles : OnlyEntry(e, id).credit > 0 /\ OnlyEntry(e, id).debit = 0}
    IN SortSuggestions(MatchDebits(t, e, SortedSeq(debits), credits, {}))

\* GET /transactions/chain-suggestions
GetChainSuggestions(ledger_id) ==
    /\ resp' = [op |-> "chain-suggestions", status |-> "200",
                suggestions |-> FindChainCandidates(txs, entries, ledger_id)]
    /\ UNCHANGED <<now, provider_active, fetch, hashed, conns, oauth, bank_txs, txs, entries,
                   tx_seq, entry_seq, sync_logs, runs>>

\* the validation of chain_transactions, weakened: the secondary's status unchecked
ChainErrorLax(t, e, ledger_id, primary_id, secondary_id) ==
    IF ~(primary_id \in DOMAIN t /\ t[primary_id].ledger_id = ledger_id)
    THEN "primary not found"
    ELSE IF ~(secondary_id \in DOMAIN t /\ t[secondary_id].ledger_id = ledger_id)
    THEN "secondary not found"
    ELSE IF t[primary_id].status # "DRAFT" THEN "primary not DRAFT"
    ELSE IF Cardinality(EntriesOf(e, primary_id)) # 1 THEN "primary entry count"
    ELSE IF Cardinality(EntriesOf(e, secondary_id)) # 1 THEN "secondary entry count"
    ELSE ""

\* the ValueError chain_transactions raises for the pair, "" when it raises none
ChainError(t, e, ledger_id, primary_id, secondary_id) ==
    IF ~(primary_id \in DOMAIN t /\ t[primary_id].ledger_id = ledger_id)
    THEN "primary not found"
    ELSE IF ~(secondary_id \in DOMAIN t /\ t[secondary_id].ledger_id = ledger_id)
    THEN "secondary not found"
    ELSE IF t[primary_id].status # "DRAFT" THEN "primary not DRAFT"
    ELSE IF t[secondary_id].status # "DRAFT" THEN "secondary not DRAFT"
    ELSE IF Cardinality(EntriesOf(e, primary_id)) # 1 THEN "primary entry count"
    ELSE IF Cardinality(EntriesOf(e, secondary_id)) # 1 THEN "secondary entry count"
    ELSE ""

\* the import references after chain_transactions, weakened: left on the secondary
RepointedKeep(rows, primary_id, secondary_id) == rows

\* bank_transactions after the UPDATE that repoints secondary's references to primary
Repointed(rows, primary_id, secondary_id) ==
    [i \in 1..Len(rows) |->
        IF rows[i].imported_transaction_id = secondary_id
        THEN [rows[i] EXCEPT !.imported_transaction_id = primary_id]
        ELSE rows[i]]

\* the journal entries after chain_transactions, weakened: the entry stays behind
MovedEntryStays(e, secondary_entry_id, primary_id) == e

\* journal_entries after the UPDATE that moves secondary's entry to primary
MovedEntry(e, secondary_entry_id, primary_id) ==
    [e EXCEPT ![secondary_entry_id].transaction_id = primary_id]

\* POST /transactions/chain: TransactionChainMatcher.chain_transactions behind
\* the route, which answers a ValueError with 400
ChainTransactions(ledger_id, primary_id, secondary_id, auto_post) ==
    /\ UNCHANGED <<now, provider_active, fetch, hashed, conns, oauth, tx_seq, entry_seq, sync_logs, runs>>
    /\ LET error == ChainError(txs, entries, ledger_id, primary_id, secondary_id)
       IN IF error # ""
          THEN /\ resp' = [op |-> "chain", status |-> "400", detail |-> error]
               /\ UNCHANGED <<bank_txs, txs, entries>>
          ELSE IF primary_id = secondary_id
          THEN \* the transaction deletes itself under its own entry: the reload
               \* fails, nothing is committed
               /\ resp' = [op |-> "chain", status |-> "500", detail |-> ""]
               /\ UNCHANGED <<bank_txs, txs, entries>>
          ELSE LET secondary_entry_id == CHOOSE j \in EntriesOf(entries, secondary_id) : TRUE
                   moved == MovedEntry(entries, secondary_entry_id, primary_id)
                   kept == [id \in DOMAIN txs \ {secondary_id} |-> txs[id]]
                   total_debit == TotalDebit(moved, primary_id)
                   total_credit == TotalCredit(moved, primary_id)
                   is_balanced == Abs(total_debit - total_credit) < Cent
                   posted == auto_post /\ is_balanced
                             /\ Cardinality(EntriesOf(moved, primary_id)) >= 2
               IN /\ entries' = moved
                  /\ bank_txs' = Repointed(bank_txs, primary_id, secondary_id)
                  /\ txs' = IF posted THEN [kept EXCEPT ![primary_id].status = "POSTED"]
                            ELSE kept
                  /\ resp' = [op |-> "chain", status |-> "200", detail |-> ""]

\* the HTTP error post_transaction raises, "" when it raises none
PostError(t, e, ledger_id, transaction_id) ==
    IF ~(transaction_id \in DOMAIN t /\ t[transaction_id].ledger_id = ledger_id)
    THEN "404"
    ELSE IF t[transaction_id].status # "DRAFT" THEN "400"
    ELSE IF Abs(TotalDebit(e, transaction_id) - TotalCredit(e, transaction_id)) > Cent
    THEN "400"
    ELSE IF Cardinality(EntriesOf(e, transaction_id)) < 2 THEN "400"
    ELSE ""

\* POST /transactions/{transaction_id}/post
PostTransaction(ledger_id, transaction_id) ==
    /\ UNCHANGED <<now, provider_active, fetch, hashed, conns, oauth, bank_txs, entries, tx_seq,
                   entry_seq, sync_logs, runs>>
    /\ LET error == PostError(txs, entries, ledger_id, transaction_id)
       IN IF error # ""
          THEN /\ resp' = [op |-> "post", status |-> error]
               /\ UNCHANGED txs
          ELSE /\ txs' = [txs EXCEPT ![transaction_id].status = "POSTED"]
               /\ resp' = [op |-> "post", status |-> "200"]

\* POST /transactions/queue/post-all
PostAllDraftTransactions(ledger_id) ==
    /\ UNCHANGED <<now, provider_active, fetch, hashed, conns, oauth, bank_txs, entries, tx_seq,
                   entry_seq, sync_logs, runs>>
    /\ LET drafts == {id \in DOMAIN txs : /\ txs[id].ledger_id = ledger_id
                                          /\ txs[id].status = "DRAFT"}
       IN /\ txs' = [id \in DOMAIN txs |->
                        IF id \in drafts THEN [txs[id] EXCEPT !.status = "POSTED"] ELSE txs[id]]
          /\ resp' = [op |-> "post-all", status |-> "200", count |-> Cardinality(drafts)]

\* ------------------------------------------------------------------ the provider's side
\* what the bank shows on a statement, as _normalize_transactions returns it
Str_Rent == <<"R","e","n","t">>
Str_Pay == <<"P","a","y">>
Str_Fee == <<"F","e","e">>

StartDay == 100

RawTx(external_id, date, amount, description) ==
    [external_id |-> external_id, date |-> date, amount |-> amount,
     description |-> description, reference |-> NoText]

T1 == RawTx("e1", StartDay, 500, Str_Rent)
\* the reversal of T1 on the same day
T2 == RawTx("e2", StartDay, -500, Str_Rent)
T3 == RawTx("e3", StartDay + 2, 500, Str_Pay)
T4 == RawTx("e4", StartDay + 3, -500, Str_Pay)
\* one cent short of T1's amount
T5 == RawTx("e5", StartDay, -499, Str_Fee)
\* a row the bank gives no date for
T6 == RawTx("e6", NoDate, 100, NoText)

\* T3's payment again, one day and three days later
T7 == RawTx("e7", StartDay + 3, 500, Str_Pay)
T8 == RawTx("e8", StartDay + 5, 500, Str_Pay)

\* T1 once more under another entry reference
T9 == RawTx("e9", StartDay, 500, Str_Rent)

\* a row the bank gives neither entry_reference nor transaction_id for
TN == RawTx(None, StartDay + 1, 250, Str_Fee)
\* a row whose reference number is one character longer than transactions.reference
TL == [RawTx("e10", StartDay + 1, 250, Str_Fee) EXCEPT
            !.reference = [i \in 1..(ReferenceColumnLen + 1) |-> "r"]]

\* the pages fetch_transactions answers with; one delivers a transaction twice,
\* one opens with an undated row
Batches == { <<T1, T1>>, <<T2, T5>>, <<T3, T4>>, <<T6, T1>> }

FetchAnswers ==
    {[kind |-> "ok", transactions |-> b] : b \in Batches}
        \cup {[kind |-> "error", transactions |-> <<>>]}

\* session states as the provider spells them
Str_AUTHORIZED == <<"A","U","T","H","O","R","I","Z","E","D">>
Str_Expired == <<"E","x","p","i","r","e","d">>
Str_CLOSED == <<"C","L","O","S","E","D">>

\* the answers of check_session_status
SessionAnswers ==
    {[kind |-> "info", status |-> st, accounts |-> <<>>] :
        st \in {Str_AUTHORIZED, Str_Expired, Str_CLOSED, Str_revoked, NoText}}
        \cup {[kind |-> "info", status |-> Str_AUTHORIZED,
               accounts |-> <<[uid |-> "uid-9", iban |-> "NO01"]>>]}
        \cup {[kind |-> "expired", status |-> NoText, accounts |-> <<>>],
              [kind |-> "error", status |-> NoText, accounts |-> <<>>]}

\* expires_in of a session the provider gives no valid_until for: 90 days
ExpiresInMinutes == 90 * MinutesPerDay

\* a connection as create_connection_from_selection first stores it
NewConnection(ledger_id, bank_account_id, provider_id, external_bank_id, account_id, iban, access_token, expires_in, initial_sync_from_date, utcnow) ==
    [ledger_id |-> ledger_id,
     bank_account_id |-> bank_account_id,
     provider_id |-> provider_id,
     external_bank_id |-> external_bank_id,
     external_account_id |-> account_id,
     external_account_iban |-> iban,
     access_token |-> Encrypt(access_token),
     refresh_token |-> None,
     token_expires_at |-> utcnow + expires_in,
     status |-> "ACTIVE",
     connection_error |-> NoText,
     last_sync_at |-> NoDate,
     last_successful_sync_at |-> NoDate,
     initial_sync_from_date |-> initial_sync_from_date]
\* ------------------------------------------------------------------ the engine with two connections
\* the date ranges a caller of manual_sync asks for
SyncRanges == {<<NoDate, NoDate>>}

\* one ledger, a current account and a credit card of one bank, both connected;
\* the provider is active or has been deactivated
Init ==
    /\ now = StartDay * MinutesPerDay
    /\ provider_active \in [ProviderIds -> BOOLEAN]
    /\ fetch = IdleFetch
    /\ hashed = <<>>
    /\ conns = << NewConnection(1, 1, 1, "NO_DNB", "uid-1", "NO01", "sess-1",
                                ExpiresInMinutes, NoDate, StartDay * MinutesPerDay),
                  NewConnection(1, 2, 1, "NO_DNB", "uid-2", "NO02", "sess-1",
                                ExpiresInMinutes, NoDate, StartDay * MinutesPerDay) >>
    /\ oauth = <<>>
    /\ bank_txs = <<>>
    /\ txs = <<>>
    /\ entries = <<>>
    /\ tx_seq = 0
    /\ entry_seq = 0
    /\ sync_logs = <<>>
    /\ runs = [r \in 1..MaxRuns |-> IdleRun]
    /\ resp = [op |-> "", status |-> ""]

\* the transaction ids a request may name: every stored one and one that is not
RequestIds == DOMAIN txs \cup {tx_seq + 1}

\* the ledgers requests are made in: those that have a bank connection
RequestLedgers == {conns[c].ledger_id : c \in 1..Len(conns)}

Next ==
    \/ \E r \in 1..MaxRuns, c \in 1..Len(conns), range \in SyncRanges :
            ManualSync(r, c, range[1], range[2])
    \/ \E r \in 1..MaxRuns, info \in SessionAnswers : SyncSessionReturn(r, info)
    \/ \E r \in 1..MaxRuns, fetched \in FetchAnswers : SyncFetchReturn(r, fetched)
    \/ \E l \in RequestLedgers : GetChainSuggestions(l)
    \/ \E l \in RequestLedgers, p \in RequestIds, q \in RequestIds, a \in BOOLEAN :
            ChainTransactions(l, p, q, a)
    \/ \E l \in RequestLedgers, id \in RequestIds : PostTransaction(l, id)
    \/ \E l \in RequestLedgers : PostAllDraftTransactions(l)

Spec == Init /\ [][Next]_vars
\* ------------------------------------------------------------------ transfers between the two accounts
\* pages that leave several drafts of one amount on each account: two receipts
\* two days apart, the first listed again under another reference; two payments
\* three days apart; a payment and a fee; a receipt and a payment on
\* consecutive days; one receipt three times within three days
ChainBatches == { <<T1, T3, T9>>, <<T2, T4>>, <<T2, T5>>, <<T3, T4>>, <<T3, T7, T8>> }

\* syncs of the two connections that fetch these pages, and the chain requests
\* of the ledger's users
NextChain ==
    \/ \E r \in 1..MaxRuns, c \in 1..Len(conns), range \in SyncRanges :
            ManualSync(r, c, range[1], range[2])
    \/ \E r \in 1..MaxRuns :
            SyncSessionReturn(r, [kind |-> "info", status |-> Str_AUTHORIZED, accounts |-> <<>>])
    \/ \E r \in 1..MaxRuns, b \in ChainBatches :
            SyncFetchReturn(r, [kind |-> "ok", transactions |-> b])
    \/ \E l \in RequestLedgers : GetChainSuggestions(l)
    \/ \E l \in RequestLedgers, p \in RequestIds, q \in RequestIds, a \in BOOLEAN :
            ChainTransactions(l, p, q, a)

SpecChain == Init /\ [][NextChain]_vars

\* ------------------------------------------------------------------ pages with a row that cannot be processed
\* a page of two good rows, and pages with a row between two good ones that
\* has no date, no external id, or a reference too long for the draft
FailBatches == { <<T1, T3>>, <<T1, T6, T3>>, <<T1, TN, T3>>, <<T1, TL, T3>> }

\* syncs of the two connections that fetch these pages
NextBatch ==
    \/ \E r \in 1..MaxRuns, c \in 1..Len(conns), range \in SyncRanges :
            ManualSync(r, c, range[1], range[2])
    \/ \E r \in 1..MaxRuns :
            SyncSessionReturn(r, [kind |-> "info", status |-> Str_AUTHORIZED, accounts |-> <<>>])
    \/ \E r \in 1..MaxRuns, b \in FailBatches :
            SyncFetchReturn(r, [kind |-> "ok", transactions |-> b])

SpecBatch == Init /\ [][NextBatch]_vars

\* ------------------------------------------------------------------ connection lifecycle
MaxStates == 2
MaxTicks == 1
\* how far one step of the clock moves it, in minutes
TickMinutes == 40
StateMinutes == 10
SelectMinutes == 30

\* the banks (ASPSP ids) a user may pick
ExternalBankIds == {"NO_DNB", "NO_SB1"}

\* OAuthState as start_oauth_flow stores it
NewOAuthState(ledger_id, bank_account_id, provider_id, external_bank_id) ==
    [ledger_id |-> ledger_id,
     bank_account_id |-> bank_account_id,
     provider_id |-> provider_id,
     external_bank_id |-> external_bank_id,
     initial_sync_from_date |-> NoDate,
     expires_at |-> now + StateMinutes,
     used_at |-> NoDate,
     accounts_data |-> <<>>]

\* start_oauth_flow: the state row is committed before the provider is looked up
StartOauthFlow(op, ledger_id, bank_account_id, provider_id, external_bank_id) ==
    /\ oauth' = Append(oauth, NewOAuthState(ledger_id, bank_account_id, provider_id,
                                            external_bank_id))
    /\ resp' = IF provider_active[provider_id]
               THEN [op |-> op, status |-> "200"]
               ELSE [op |-> op, status |-> "500"]

\* POST /bank-connections/connect
InitiateBankConnection(current_ledger, bank_account_id, provider_id, external_bank_id) ==
    /\ Len(oauth) < MaxStates
    /\ UNCHANGED <<now, provider_active, fetch, hashed, conns, bank_txs, txs, entries, tx_seq,
                   entry_seq, sync_logs, runs>>
    /\ IF bank_account_id \notin BankAccountIds
       THEN resp' = [op |-> "connect", status |-> "404"]
            /\ UNCHANGED oauth
       ELSE IF BankAccountTable[bank_account_id].ledger_id # current_ledger
       THEN resp' = [op |-> "connect", status |-> "403"]
            /\ UNCHANGED oauth
       ELSE IF \E c \in 1..Len(conns) : /\ conns[c].bank_account_id = bank_account_id
                                        /\ conns[c].status = "ACTIVE"
       THEN resp' = [op |-> "connect", status |-> "400"]
            /\ UNCHANGED oauth
       ELSE IF ~provider_active[provider_id]
       THEN resp' = [op |-> "connect", status |-> "404"]
            /\ UNCHANGED oauth
       ELSE StartOauthFlow("connect", current_ledger, bank_account_id, provider_id,
                           external_bank_id)

\* POST /bank-connections/{connection_id}/reauthorize
ReauthorizeBankConnection(current_ledger, connection_id) ==
    /\ Len(oauth) < MaxStates
    /\ UNCHANGED <<now, provider_active, fetch, hashed, conns, bank_txs, txs, entries, tx_seq,
                   entry_seq, sync_logs, runs>>
    /\ IF connection_id \notin 1..Len(conns)
       THEN resp' = [op |-> "reauthorize", status |-> "404"]
            /\ UNCHANGED oauth
       ELSE IF conns[connection_id].ledger_id # current_ledger
       THEN resp' = [op |-> "reauthorize", status |-> "403"]
            /\ UNCHANGED oauth
       ELSE StartOauthFlow("reauthorize", current_ledger,
                           conns[connection_id].bank_account_id,
                           conns[connection_id].provider_id,
                           conns[connection_id].external_bank_id)

\* the accounts a session shows, with the uids that session gives them
AccountsOf == ("sess-1" :> << [account_id |-> "uid-1", iban |-> "NO01"],
                              [account_id |-> "uid-2", iban |-> "NO02"] >>) @@
              ("sess-2" :> << [account_id |-> "uid-8", iban |-> "NO02"],
                              [account_id |-> "uid-9", iban |-> "NO01"] >>)

\* the session the bank opens for an authorization: a fresh one each time
SessionOf(state_token) == IF state_token = 1 THEN "sess-1" ELSE "sess-2"

\* the answers of exchange_code_for_token for an authorization: its session, a
\* session without accounts, or a failure
ExchangeAnswers(state_token) ==
    {[kind |-> "ok", access_token |-> SessionOf(state_token),
      accounts |-> AccountsOf[SessionOf(state_token)]],
     [kind |-> "ok", access_token |-> SessionOf(state_token), accounts |-> <<>>],
     [kind |-> "error", access_token |-> "", accounts |-> <<>>]}

\* GET /bank-connections/oauth/callback: handle_oauth_callback behind the
\* route, which turns every exception into a redirect to the error page
OauthCallback(state_token, token_response) ==
    /\ UNCHANGED <<now, provider_active, fetch, hashed, conns, bank_txs, txs, entries, tx_seq,
                   entry_seq, sync_logs, runs>>
    /\ IF state_token \notin 1..Len(oauth)
       THEN resp' = [op |-> "callback", status |-> "invalid_state"] /\ UNCHANGED oauth
       ELSE IF oauth[state_token].used_at # NoDate
       THEN resp' = [op |-> "callback", status |-> "invalid_state"] /\ UNCHANGED oauth
       ELSE IF ~provider_active[oauth[state_token].provider_id]
       THEN resp' = [op |-> "callback", status |-> "invalid_state"] /\ UNCHANGED oauth
       ELSE IF token_response.kind = "error"
       THEN resp' = [op |-> "callback", status |-> "connection_failed"] /\ UNCHANGED oauth
       ELSE IF token_response.accounts = <<>>
       THEN resp' = [op |-> "callback", status |-> "invalid_state"] /\ UNCHANGED oauth
       ELSE /\ oauth' = [oauth EXCEPT
                    ![state_token].accounts_data =
                        << [accounts |-> token_response.accounts,
                            access_token |-> token_response.access_token,
                            refresh_token |-> None,
                            expires_in |-> ExpiresInMinutes] >>,
                    ![state_token].expires_at = now + SelectMinutes]
            /\ resp' = [op |-> "callback", status |-> "select"]

\* the lookup of the bank account's connection, weakened: a DISCONNECTED one
\* is not found
ExistingLiveForBankAccount(state, bank_account_id) ==
    LET hits == {c \in 1..Len(conns) : /\ conns[c].bank_account_id = bank_account_id
                                       /\ conns[c].ledger_id = state.ledger_id
                                       /\ conns[c].status # "DISCONNECTED"}
    IN IF hits = {} THEN NoId ELSE MinOf(hits)

\* the first connection of the bank account in the state's ledger, or NoId
ExistingForBankAccount(state, bank_account_id) ==
    LET hits == {c \in 1..Len(conns) : /\ conns[c].bank_account_id = bank_account_id
                                       /\ conns[c].ledger_id = state.ledger_id}
    IN IF hits = {} THEN NoId ELSE MinOf(hits)

\* the query for the external account, weakened: it finds nothing
ExistingExternalNever(state, selected_account_id) == FALSE

\* whether an ACTIVE connection of the state's ledger and provider already
\* holds the selected external account
ExistingExternal(state, selected_account_id) ==
    \E c \in 1..Len(conns) :
        /\ conns[c].ledger_id = state.ledger_id
        /\ conns[c].provider_id = state.provider_id
        /\ conns[c].external_account_id = selected_account_id
        /\ conns[c].status = "ACTIVE"

\* the ValueError create_connection_from_selection raises, "" when it raises none
SelectionError(state_token, selected_account_id, bank_account_id) ==
    IF state_token \notin 1..Len(oauth) THEN "Invalid state token"
    ELSE LET state == oauth[state_token]
         IN IF state.expires_at < now THEN "State token expired"
            ELSE IF state.accounts_data = <<>> THEN "No account data available"
            ELSE IF ~\E i \in 1..Len(state.accounts_data[1].accounts) :
                        state.accounts_data[1].accounts[i].account_id = selected_account_id
            THEN "Selected account not found"
            ELSE IF ~(/\ bank_account_id \in BankAccountIds
                      /\ BankAccountTable[bank_account_id].ledger_id = state.ledger_id
                      /\ BankAccountTable[bank_account_id].is_active)
            THEN "Bank account not found"
            ELSE IF /\ ExistingForBankAccount(state, bank_account_id) = NoId
                    /\ ExistingExternal(state, selected_account_id)
            THEN "This account is already connected"
            ELSE ""

\* the sibling query of create_connection_from_selection
SiblingConnections(rows, state, bank_connection_id) ==
    {c \in 1..Len(rows) :
        /\ rows[c].ledger_id = state.ledger_id
        /\ rows[c].provider_id = state.provider_id
        /\ rows[c].external_bank_id = state.external_bank_id
        /\ c # bank_connection_id
        /\ rows[c].status # "DISCONNECTED"}

\* a sibling after the new session was pushed to it
UpdatedSibling(sibling, data) ==
    LET hits == {i \in 1..Len(data.accounts) :
                    /\ data.accounts[i].iban # None
                    /\ data.accounts[i].iban = sibling.external_account_iban}
        new_uid == IF sibling.external_account_iban # None /\ hits # {}
                   THEN data.accounts[MinOf(hits)].account_id
                   ELSE sibling.external_account_id
        was_error == sibling.status = "ERROR"
    IN [sibling EXCEPT !.access_token = Encrypt(data.access_token),
                       !.refresh_token = None,
                       !.token_expires_at = now + data.expires_in,
                       !.external_account_id = new_uid,
                       !.status = IF was_error THEN "ACTIVE" ELSE @,
                       !.connection_error = IF was_error THEN NoText ELSE @]

\* POST /bank-connections/select-account: create_connection_from_selection
\* behind the route, which answers a ValueError with 400
SelectAccount(state_token, selected_account_id, bank_account_id) ==
    /\ UNCHANGED <<now, provider_active, fetch, hashed, oauth, bank_txs, txs, entries, tx_seq,
                   entry_seq, sync_logs, runs>>
    /\ LET error == SelectionError(state_token, selected_account_id, bank_account_id)
       IN IF error # ""
          THEN /\ resp' = [op |-> "select", status |-> "400"]
               /\ UNCHANGED conns
          ELSE LET state == oauth[state_token]
                   data == state.accounts_data[1]
                   account_info ==
                       data.accounts[MinOf({i \in 1..Len(data.accounts) :
                           data.accounts[i].account_id = selected_account_id})]
                   existing == ExistingForBankAccount(state, bank_account_id)
                   id == IF existing # NoId THEN existing ELSE Len(conns) + 1
                   rows == IF existing # NoId
                           THEN [conns EXCEPT
                                   ![id].external_account_id = account_info.account_id,
                                   ![id].external_account_iban = account_info.iban,
                                   ![id].access_token = Encrypt(data.access_token),
                                   ![id].refresh_token = None,
                                   ![id].token_expires_at = now + data.expires_in,
                                   ![id].status = "ACTIVE",
                                   ![id].provider_id = state.provider_id]
                           ELSE Append(conns,
                                   NewConnection(state.ledger_id, bank_account_id,
                                       state.provider_id, state.external_bank_id,
                                       account_info.account_id, account_info.iban,
                                       data.access_token, data.expires_in,
                                       state.initial_sync_from_date, now))
                   siblings == SiblingConnections(rows, state, id)
               IN /\ conns' = [c \in 1..Len(rows) |->
                                IF c \in siblings THEN UpdatedSibling(rows[c], data)
                                ELSE rows[c]]
                  /\ resp' = [op |-> "select", status |-> "200"]

\* the answers of revoke_token
RevokeAnswers == {"ok", "error"}

\* what became of the revocation in disconnect_bank: the provider could not be
\* built, the call failed, or it succeeded; each failure is only logged
RevokeOutcome(bank_connection, revoke) ==
    IF ~provider_active[bank_connection.provider_id] THEN "not attempted"
    ELSE IF revoke = "error" THEN "failed"
    ELSE "revoked"

\* the connection after disconnect_bank, weakened: the credentials stay
DisconnectedKeepsSession(bank_connection) == [bank_connection EXCEPT !.status = "DISCONNECTED"]

\* the connection as disconnect_bank leaves it
Disconnected(bank_connection) ==
    [bank_connection EXCEPT !.status = "DISCONNECTED",
                            !.access_token = None,
                            !.refresh_token = None,
                            !.token_expires_at = NoDate]

\* DELETE /bank-connections/{connection_id}
DisconnectBank(current_ledger, connection_id, revoke) ==
    /\ UNCHANGED <<now, provider_active, fetch, hashed, oauth, bank_txs, txs, entries, tx_seq,
                   entry_seq, sync_logs, runs>>
    /\ IF connection_id \notin 1..Len(conns)
       THEN resp' = [op |-> "disconnect", status |-> "404"] /\ UNCHANGED conns
       ELSE IF conns[connection_id].ledger_id # current_ledger
       THEN resp' = [op |-> "disconnect", status |-> "403"] /\ UNCHANGED conns
       ELSE /\ conns' = [conns EXCEPT ![connection_id] = Disconnected(@)]
            /\ resp' = [op |-> "disconnect", status |-> "200",
                        revoke |-> RevokeOutcome(conns[connection_id], revoke)]

\* time passes
Tick ==
    /\ now < StartDay * MinutesPerDay + MaxTicks * TickMinutes
    /\ now' = now + TickMinutes
    /\ UNCHANGED <<provider_active, fetch, hashed, conns, oauth, bank_txs, txs, entries, tx_seq,
                   entry_seq, sync_logs, runs, resp>>

\* nothing connected yet; the provider is active or has been deactivated
InitLife ==
    /\ now = StartDay * MinutesPerDay
    /\ provider_active \in [ProviderIds -> BOOLEAN]
    /\ fetch = IdleFetch
    /\ hashed = <<>>
    /\ conns = <<>>
    /\ oauth = <<>>
    /\ bank_txs = <<>>
    /\ txs = <<>>
    /\ entries = <<>>
    /\ tx_seq = 0
    /\ entry_seq = 0
    /\ sync_logs = <<>>
    /\ runs = [r \in 1..MaxRuns |-> IdleRun]
    /\ resp = [op |-> "", status |-> ""]

\* the bank accounts a connect request names: the ones in use
ConnectAccounts == {b \in BankAccountIds : BankAccountTable[b].is_active}

\* the state tokens a request may carry: the ones issued and one never issued
StateTokens == 1..(Len(oauth) + 1)

\* the account ids a selection request may name
SelectableIds == {"uid-1", "uid-9"}

NextLife ==
    \/ \E l \in LedgerIds, b \in ConnectAccounts, p \in ProviderIds, x \in ExternalBankIds :
            InitiateBankConnection(l, b, p, x)
    \/ \E l \in LedgerIds, c \in 1..Len(conns) : ReauthorizeBankConnection(l, c)
    \/ \E st \in StateTokens : \E a \in ExchangeAnswers(st) : OauthCallback(st, a)
    \/ \E st \in StateTokens, u \in SelectableIds, b \in BankAccountIds :
            SelectAccount(st, u, b)
    \/ \E l \in LedgerIds, c \in 1..Len(conns), v \in RevokeAnswers : DisconnectBank(l, c, v)
    \/ Tick

SpecLife == InitLife /\ [][NextLife]_vars

\* ------------------------------------------------------------------ a second ledger already connected
\* the connection of ledger 2, made in an earlier authorization in which the
\* bank named the account uid-1, as it does again in session sess-1
LinkedElsewhere ==
    NewConnection(2, 3, 1, "NO_DNB", "uid-1", "NO01", "sess-0", ExpiresInMinutes, NoDate,
                  StartDay * MinutesPerDay)

\* ledger 2 has its bank account connected; ledger 1 has nothing connected yet
InitSelect ==
    /\ now = StartDay * MinutesPerDay
    /\ provider_active = [p \in ProviderIds |-> TRUE]
    /\ fetch = IdleFetch
    /\ hashed = <<>>
    /\ conns = <<LinkedElsewhere>>
    /\ oauth = <<>>
    /\ bank_txs = <<>>
    /\ txs = <<>>
    /\ entries = <<>>
    /\ tx_seq = 0
    /\ entry_seq = 0
    /\ sync_logs = <<>>
    /\ runs = [r \in 1..MaxRuns |-> IdleRun]
    /\ resp = [op |-> "", status |-> ""]

\* the requests of the lifecycle, all authorizations at one bank
NextSelect ==
    \/ \E l \in LedgerIds, b \in ConnectAccounts, p \in ProviderIds :
            InitiateBankConnection(l, b, p, "NO_DNB")
    \/ \E st \in StateTokens : \E a \in ExchangeAnswers(st) : OauthCallback(st, a)
    \/ \E st \in StateTokens, u \in SelectableIds, b \in BankAccountIds :
            SelectAccount(st, u, b)
    \/ \E l \in LedgerIds, c \in 1..Len(conns) : DisconnectBank(l, c, "ok")
    \/ Tick

SpecSelect == InitSelect /\ [][NextSelect]_vars

\* ------------------------------------------------------------------ an established connection
\* the longest time since the last successful sync that is tried, in days
LongAgoDays == 120

\* how long ago the connection last synced successfully, in days
SyncAges == {0, 1, 88, 89, 90, LongAgoDays}

\* today, far enough from day 0 for every age
OpsToday == StartDay + LongAgoDays

\* the date ranges a caller of manual_sync asks for: none, a from_date older
\* than the rolling window, a to_date in the past
OpsRanges == {<<NoDate, NoDate>>, <<StartDay, NoDate>>, <<NoDate, StartDay + 1>>}

\* the answers the provider gives here: the session is open or has ended; one
\* batch or a failure
OpsSessionAnswers ==
    {[kind |-> "info", status |-> Str_AUTHORIZED, accounts |-> <<>>],
     [kind |-> "info", status |-> Str_CLOSED, accounts |-> <<>>]}

OpsFetchAnswers ==
    {[kind |-> "ok", transactions |-> <<T1, T2>>],
     [kind |-> "error", transactions |-> <<>>]}

\* the connection of bank account 1 as a sync that succeeded at time t left it
SyncedConnection(t) ==
    [NewConnection(1, 1, 1, "NO_DNB", "uid-1", "NO01", "sess-1", ExpiresInMinutes,
                   NoDate, OpsToday * MinutesPerDay)
        EXCEPT !.last_sync_at = t, !.last_successful_sync_at = t]

\* one connection that never synced, or last synced successfully some days
\* ago; its provider is still active or has been deactivated since
InitOps ==
    /\ now = OpsToday * MinutesPerDay
    /\ provider_active \in [ProviderIds -> BOOLEAN]
    /\ fetch = IdleFetch
    /\ hashed = <<>>
    /\ conns \in {<<SyncedConnection(NoDate)>>}
                    \cup {<<SyncedConnection((OpsToday - age) * MinutesPerDay)>> :
                            age \in SyncAges}
    /\ oauth = <<>>
    /\ bank_txs = <<>>
    /\ txs = <<>>
    /\ entries = <<>>
    /\ tx_seq = 0
    /\ entry_seq = 0
    /\ sync_logs = <<>>
    /\ runs = [r \in 1..MaxRuns |-> IdleRun]
    /\ resp = [op |-> "", status |-> ""]

NextOps ==
    \/ \E r \in 1..MaxRuns, c \in 1..Len(conns), range \in OpsRanges :
            ManualSync(r, c, range[1], range[2])
    \/ \E r \in 1..MaxRuns, info \in OpsSessionAnswers : SyncSessionReturn(r, info)
    \/ \E r \in 1..MaxRuns, fetched \in OpsFetchAnswers : SyncFetchReturn(r, fetched)
    \/ \E l \in LedgerIds, c \in 1..Len(conns), v \in RevokeAnswers : DisconnectBank(l, c, v)

SpecOps == InitOps /\ [][NextOps]_vars

\* ------------------------------------------------------------------ the adapter's paginated fetch
\* the safety limit of the pagination loop
PageLimit == 100
\* how far back the adapter asks when it is given no from_date, in days
DefaultHistoryDays == 90

\* no continuation key: None (absent from the response) or the empty string
NoKey == <<>>

\* how the upstream pages its answer: "paged" gives every page the key of the
\* next one, "stuck" gives back the key of the page just served, forever
Upstreams == {"paged", "stuck"}

\* the transactions of upstream page k, after _normalize_transactions
PageOf(k) == << [external_id |-> k] >>

\* the pages 1..n one after the other
RECURSIVE PagesUpTo(_)
PagesUpTo(n) == IF n = 0 THEN <<>> ELSE PagesUpTo(n - 1) \o PageOf(n)

\* the page a request asks for: the first without a key, else the key's page
PageAsked(sent) == IF sent = NoKey THEN 1 ELSE sent[1]

\* the upstream's responses to the request in flight: a failure (an error status
\* or a timeout of the 60 s client), the page asked for without a key, or the
\* page asked for with the key its way of paging gives
PageResponses ==
    LET k == PageAsked(fetch.sent)
        next == IF fetch.upstream = "paged" THEN <<k + 1>>
                ELSE IF fetch.sent = NoKey THEN <<1>> ELSE fetch.sent
    IN {[is_success |-> FALSE, transactions |-> <<>>, continuation_key |-> NoKey],
        [is_success |-> TRUE, transactions |-> PageOf(k), continuation_key |-> NoKey],
        [is_success |-> TRUE, transactions |-> PageOf(k), continuation_key |-> next]}

\* the continuation_key parameter of a request, weakened: never sent
CurrentParamsNoKey(continuation_key) == NoKey

\* the continuation_key parameter of the next request
CurrentParams(continuation_key) == continuation_key

\* the safety limit test, weakened: the loop is never cut
ReachedLimitNever(page_num) == FALSE

\* the safety limit test of the pagination loop
ReachedLimit(page_num) == page_num >= PageLimit

\* fetch_transactions up to its first request
FetchTransactions(upstream, from_date, to_date) ==
    /\ fetch.pc = "idle"
    /\ fetch' = [pc |-> "request",
                 upstream |-> upstream,
                 date_from |-> IF from_date # NoDate THEN from_date
                               ELSE to_date - DefaultHistoryDays,
                 all_transactions |-> <<>>,
                 continuation_key |-> NoKey,
                 page_num |-> 1,
                 sent |-> CurrentParams(NoKey),
                 requests |-> 1]
    /\ UNCHANGED <<now, provider_active, hashed, conns, oauth, bank_txs, txs, entries,
                   tx_seq, entry_seq, sync_logs, runs, resp>>

\* fetch_transactions from a response to the next request, the return or the raise
FetchPageReturn(response) ==
    /\ fetch.pc = "request"
    /\ UNCHANGED <<now, provider_active, hashed, conns, oauth, bank_txs, txs, entries,
                   tx_seq, entry_seq, sync_logs, runs, resp>>
    /\ IF ~response.is_success
       THEN fetch' = [fetch EXCEPT !.pc = "raised"]
       ELSE LET all == fetch.all_transactions \o response.transactions
                key == response.continuation_key
            IN IF key = NoKey
               THEN fetch' = [fetch EXCEPT !.pc = "returned", !.all_transactions = all,
                                           !.continuation_key = key]
               ELSE IF ReachedLimit(fetch.page_num)
               THEN fetch' = [fetch EXCEPT !.pc = "returned", !.all_transactions = all,
                                           !.continuation_key = key]
               ELSE fetch' = [fetch EXCEPT !.all_transactions = all,
                                           !.continuation_key = key,
                                           !.page_num = @ + 1,
                                           !.sent = CurrentParams(key),
                                           !.requests = @ + 1]

\* the date ranges fetch_transactions is called with
FetchRanges == {<<NoDate, StartDay + 1>>, <<StartDay, StartDay + 1>>}

InitFetch ==
    /\ now = StartDay * MinutesPerDay
    /\ provider_active = [p \in ProviderIds |-> TRUE]
    /\ fetch = IdleFetch
    /\ hashed = <<>>
    /\ conns = <<>>
    /\ oauth = <<>>
    /\ bank_txs = <<>>
    /\ txs = <<>>
    /\ entries = <<>>
    /\ tx_seq = 0
    /\ entry_seq = 0
    /\ sync_logs = <<>>
    /\ runs = [r \in 1..MaxRuns |-> IdleRun]
    /\ resp = [op |-> "", status |-> ""]

NextFetch ==
    \/ \E u \in Upstreams, range \in FetchRanges : FetchTransactions(u, range[1], range[2])
    \/ \E response \in PageResponses : FetchPageReturn(response)

SpecFetch == InitFetch /\ [][NextFetch]_vars

\* every request is answered or times out, so a call in flight takes a step
SpecFetchFair == SpecFetch /\ WF_vars(NextFetch)

\* ------------------------------------------------------------------ the fingerprint on its own
\* how many generate_hash calls are compared
MaxHashed == 2

\* descriptions and references tried: plain, in capitals with a trailing blank,
\* ending in the separator, with one and with two inner blanks, and two of 201
\* characters that differ in the last one only
Str_a == <<"a">>
Str_A_blank == <<"A", " ">>
Str_a_bar == <<"a", "|">>
Str_a_b == <<"a", " ", "b">>
Str_a__b == <<"a", " ", " ", "b">>
Str_bar == <<"|">>
Str_r == <<"r">>
LongX == [i \in 1..(DescMaxLen + 1) |-> "x"]
LongY == [i \in 1..(DescMaxLen + 1) |-> IF i <= DescMaxLen THEN "x" ELSE "y"]

HashDates == {StartDay, StartDay + 1}
HashAmounts == {500, -500}
HashDescriptions == {Str_a, Str_A_blank, Str_a_bar, Str_a_b, Str_a__b, LongX, LongY}
HashReferences == {NoText, Str_bar, Str_r}

\* one call of TransactionDeduplicator.generate_hash
GenerateHashCall(transaction_date, amount, description, reference) ==
    /\ Len(hashed) < MaxHashed
    /\ hashed' = Append(hashed,
            [transaction_date |-> transaction_date,
             amount |-> amount,
             description |-> description,
             reference |-> reference,
             digest |-> GenerateHash(transaction_date, amount, description, reference)])
    /\ UNCHANGED <<now, provider_active, fetch, conns, oauth, bank_txs, txs, entries,
                   tx_seq, entry_seq, sync_logs, runs, resp>>

InitHash ==
    /\ now = StartDay * MinutesPerDay
    /\ provider_active = [p \in ProviderIds |-> TRUE]
    /\ fetch = IdleFetch
    /\ hashed = <<>>
    /\ conns = <<>>
    /\ oauth = <<>>
    /\ bank_txs = <<>>
    /\ txs = <<>>
    /\ entries = <<>>
    /\ tx_seq = 0
    /\ entry_seq = 0
    /\ sync_logs = <<>>
    /\ runs = [r \in 1..MaxRuns |-> IdleRun]
    /\ resp = [op |-> "", status |-> ""]

NextHash ==
    \E d \in HashDates, a \in HashAmounts, desc \in HashDescriptions,
       ref \in HashReferences : GenerateHashCall(d, a, desc, ref)

SpecHash == InitHash /\ [][NextHash]_vars

\* ------------------------------------------------------------------ properties
\* the list a SyncFetchReturn step of run r processes when the provider answers f
Delivered(r, f) == InvertForLiability(conns[runs[r].conn], f.transactions)

\* the bank_transactions rows of connection c that carry external id x
RowsFor(rows, c, x) ==
    {k \in 1..Len(rows) : /\ rows[k].bank_connection_id = c
                          /\ rows[k].external_transaction_id = x}

\* position i of raws delivers again what connection c has ingested already:
\* in an earlier run, or at an earlier position of raws
IsRepeat(c, raws, i) ==
    /\ raws[i].date # NoDate
    /\ \/ \E k \in RowsFor(bank_txs, c, raws[i].external_id) :
            /\ bank_txs[k].transaction_date = raws[i].date
            /\ bank_txs[k].amount = raws[i].amount
            /\ bank_txs[k].description = raws[i].description
            /\ bank_txs[k].reference = raws[i].reference
       \/ \E j \in 1..(i - 1) : raws[j] = raws[i]

\* the step is run r returning successfully from the provider's answer f
IsFetchStep(r, f) ==
    /\ runs[r].pc = "fetch"
    /\ runs'[r].pc = "done"
    /\ f.kind = "ok"
    /\ SyncFetchReturn(r, f)

\* the ledger transactions a step creates
CreatedTxs == DOMAIN txs' \ DOMAIN txs

\* C1 (as amended): when a sync run is delivered an external transaction its
\* connection already ingested (in an earlier run or earlier in the same
\* batch), no ledger transaction and no second bank_transactions row is created
\* for it: the one row of the first attempt stays as it was, IMPORTED or
\* DUPLICATE and linked to a ledger transaction, and the repeat is counted in
\* the run's duplicates.
C1_RepeatIsCountedAndSkipped ==
    [][\A r \in 1..MaxRuns, f \in FetchAnswers :
        IsFetchStep(r, f) =>
            LET c == runs[r].conn
                raws == Delivered(r, f)
                dated == {i \in 1..Len(raws) : raws[i].date # NoDate}
                repeats == {i \in 1..Len(raws) : IsRepeat(c, raws, i)}
            IN /\ Cardinality(CreatedTxs) <= Cardinality(dated \ repeats)
               /\ resp'.duplicates >= Cardinality(repeats)
               /\ \A k \in 1..Len(bank_txs) : bank_txs'[k] = bank_txs[k]
               /\ \A i \in repeats :
                    LET x == raws[i].external_id
                        before == RowsFor(bank_txs, c, x)
                        after == RowsFor(bank_txs', c, x)
                        made == {id \in CreatedTxs : txs'[id].source_reference = x}
                    IN /\ Cardinality(after) = 1
                       /\ Cardinality(made) <= IF before # {} THEN 0 ELSE 1
                       /\ \A k \in after :
                            /\ bank_txs'[k].import_status \in {"IMPORTED", "DUPLICATE"}
                            /\ bank_txs'[k].imported_transaction_id \in DOMAIN txs'
      ]_vars

\* a run that was delivered the same transaction twice, after an earlier run had
\* ingested it, has returned: two duplicates counted, nothing imported, and the
\* connection holds the one row of the first attempt, still IMPORTED
C1_Witness ==
    /\ resp.op = "sync"
    /\ resp.status = "success"
    /\ resp.transactions_fetched = 2
    /\ resp.duplicates = 2
    /\ resp.imported = 0
    /\ \E k \in 1..Len(bank_txs) :
        /\ RowsFor(bank_txs, resp.conn, "e1") = {k}
        /\ bank_txs[k].import_status = "IMPORTED"
        /\ bank_txs[k].imported_transaction_id \in DOMAIN txs

\* C1 as the spec states it: no second ledger transaction, and the repeated
\* attempt is recorded as DUPLICATE, linked to the ledger transaction of the
\* first attempt.
C1_RepeatRecordedAsDuplicate ==
    [][\A r \in 1..MaxRuns, f \in FetchAnswers :
        IsFetchStep(r, f) =>
            LET c == runs[r].conn
                raws == Delivered(r, f)
            IN \A i \in 1..Len(raws) :
                IsRepeat(c, raws, i) =>
                    /\ Cardinality({id \in CreatedTxs :
                            txs'[id].source_reference = raws[i].external_id}) <= 1
                    /\ \E k \in RowsFor(bank_txs', c, raws[i].external_id) :
                            /\ bank_txs'[k].import_status = "DUPLICATE"
                            /\ bank_txs'[k].imported_transaction_id \in DOMAIN txs'
      ]_vars
\* the step left run r's call failed: the caller got a 'failed' result carrying
\* one message, connection c is in ERROR with that message as its error, and
\* the run's sync log is FAILED with the same message
EndedFailed(c, log) ==
    /\ resp'.op = "sync"
    /\ resp'.conn = c
    /\ resp'.status = "failed"
    /\ resp'.imported = 0
    /\ Len(resp'.errors) = 1
    /\ resp'.errors[1] # NoText
    /\ conns'[c].status = "ERROR"
    /\ conns'[c].connection_error = resp'.errors[1]
    /\ log \in 1..Len(sync_logs')
    /\ sync_logs'[log].bank_connection_id = c
    /\ sync_logs'[log].sync_status = "FAILED"
    /\ sync_logs'[log].error_message = resp'.errors[1]
    /\ sync_logs'[log].completed_at # NoDate

\* the step left run r's call returned successfully for connection c
EndedSuccess(c, log) ==
    /\ resp'.op = "sync"
    /\ resp'.conn = c
    /\ resp'.status = "success"
    /\ conns'[c].status = "ACTIVE"
    /\ sync_logs'[log].sync_status = "SUCCESS"

\* raw_tx is processed without an exception: it has a date, an external id and
\* a reference that fits the draft
Processable(raw_tx) ==
    /\ raw_tx.date # NoDate
    /\ raw_tx.external_id # None
    /\ Len(raw_tx.reference) <= ReferenceColumnLen

\* C2: sync_transactions never raises to its caller.  Every run that got its
\* transactions from the provider returns a result, 'success' or 'failed', also
\* when the processing of a transaction or the final bookkeeping failed; a
\* 'failed' result comes with the connection in ERROR holding the exception's
\* message and the run's sync log FAILED.
C2_NeverRaisesToItsCaller ==
    [][\A r \in 1..MaxRuns :
        (runs[r].pc = "fetch" /\ runs'[r].pc = "done") =>
            /\ resp'.op = "sync"
            /\ resp'.status \in {"success", "failed"}
            /\ resp'.status = "failed" => EndedFailed(runs[r].conn, runs[r].log)
      ]_vars

\* C3: when the session check reports a status that is expired, closed or
\* revoked in any letter case, the run ends there with a SessionExpiredError:
\* it never asks for transactions, stores nothing, its sync log is FAILED and
\* the connection is left in ERROR.
C3_EndedSessionFailsTheRun ==
    [][\A r \in 1..MaxRuns, info \in SessionAnswers :
        (/\ runs[r].pc = "session"
         /\ info.kind = "info"
         /\ Lower(info.status) \in {Str_expired, Str_closed, Str_revoked}
         /\ SyncSessionReturn(r, info))
            => /\ runs'[r].pc = "done"
               /\ resp'.caught = "SessionExpiredError"
               /\ EndedFailed(runs[r].conn, runs[r].log)
               /\ conns'[runs[r].conn].status # "ACTIVE"
               /\ UNCHANGED <<bank_txs, txs, entries, tx_seq, entry_seq>>
      ]_vars

\* a run was told its session is CLOSED, in capitals, and has failed with the
\* re-authorization message; the connection is in ERROR
C3_Witness ==
    /\ resp.op = "sync"
    /\ resp.status = "failed"
    /\ resp.caught = "SessionExpiredError"
    /\ resp.errors = <<SessionEndedMessage(Str_CLOSED)>>
    /\ conns[resp.conn].status = "ERROR"
    /\ \E log \in 1..Len(sync_logs) :
        /\ sync_logs[log].sync_status = "FAILED"
        /\ sync_logs[log].error_message = SessionEndedMessage(Str_CLOSED)

\* C5: sync runs on one connection are serialized: no two calls of
\* sync_transactions on the same connection are in progress at once.
C5_RunsOnOneConnectionSerialized ==
    \A r1 \in 1..MaxRuns, r2 \in 1..MaxRuns :
        (/\ r1 # r2
         /\ runs[r1].pc \in {"session", "fetch"}
         /\ runs[r2].pc \in {"session", "fetch"})
            => runs[r1].conn # runs[r2].conn

\* C6: every POSTED transaction has total debit equal to total credit.
C6_PostedIsBalanced ==
    \A id \in DOMAIN txs :
        txs[id].status = "POSTED" => TotalDebit(entries, id) = TotalCredit(entries, id)
\* C7: a successful chain leaves the primary with exactly its own entry and
\* the secondary's (account, debit and credit as they were), removes the
\* secondary transaction, and makes every bank_transactions row that referenced
\* the secondary reference the primary; no other transaction, entry or row
\* changes.
C7_ChainMovesOneEntry ==
    [][\A l \in RequestLedgers, p \in RequestIds, q \in RequestIds, a \in BOOLEAN :
        (/\ resp'.op = "chain"
         /\ resp'.status = "200"
         /\ ChainTransactions(l, p, q, a))
            => /\ p # q
               /\ EntriesOf(entries', p) = EntriesOf(entries, p) \cup EntriesOf(entries, q)
               /\ Cardinality(EntriesOf(entries', p)) = 2
               /\ DOMAIN entries' = DOMAIN entries
               /\ \A j \in DOMAIN entries :
                    /\ entries'[j].account_id = entries[j].account_id
                    /\ entries'[j].debit = entries[j].debit
                    /\ entries'[j].credit = entries[j].credit
                    /\ j \notin EntriesOf(entries, q) => entries'[j] = entries[j]
               /\ DOMAIN txs' = DOMAIN txs \ {q}
               /\ \A id \in DOMAIN txs' : id # p => txs'[id] = txs[id]
               /\ [txs'[p] EXCEPT !.status = "DRAFT"] = txs[p]
               /\ Len(bank_txs') = Len(bank_txs)
               /\ \A k \in 1..Len(bank_txs) :
                    bank_txs'[k] = IF bank_txs[k].imported_transaction_id = q
                                   THEN [bank_txs[k] EXCEPT !.imported_transaction_id = p]
                                   ELSE bank_txs[k]
      ]_vars

\* a chain has succeeded: one transaction holds two entries, two
\* bank_transactions rows reference it, and a transaction id is gone
C7_Witness ==
    /\ resp.op = "chain"
    /\ resp.status = "200"
    /\ \E id \in DOMAIN txs :
        /\ Cardinality(EntriesOf(entries, id)) = 2
        /\ Cardinality({k \in 1..Len(bank_txs) :
                            bank_txs[k].imported_transaction_id = id}) = 2
        /\ \E gone \in 1..tx_seq : gone \notin DOMAIN txs

\* C8: chain answers with a validation error and changes no transaction, entry
\* or bank_transactions row when the primary or the secondary is not DRAFT or
\* does not have exactly one entry.
C8_ChainRejectsWithoutChange ==
    [][\A l \in RequestLedgers, p \in RequestIds, q \in RequestIds, a \in BOOLEAN :
        (/\ resp'.op = "chain"
         /\ p \in DOMAIN txs
         /\ q \in DOMAIN txs
         /\ txs[p].ledger_id = l
         /\ txs[q].ledger_id = l
         /\ \/ txs[p].status # "DRAFT"
            \/ txs[q].status # "DRAFT"
            \/ Cardinality(EntriesOf(entries, p)) # 1
            \/ Cardinality(EntriesOf(entries, q)) # 1
         /\ ChainTransactions(l, p, q, a))
            => /\ resp'.status = "400"
               /\ UNCHANGED <<txs, entries, bank_txs>>
      ]_vars

\* a chain was refused because its secondary is not DRAFT
C8_Witness ==
    /\ resp.op = "chain"
    /\ resp.status = "400"
    /\ resp.detail = "secondary not DRAFT"
    /\ \E q \in DOMAIN txs : txs[q].status = "POSTED"
    /\ \E p \in DOMAIN txs : txs[p].status = "DRAFT" /\ Cardinality(EntriesOf(entries, p)) = 1

\* C9: every suggestion of find_chain_candidates pairs a DRAFT bank-sync
\* single-entry pure debit with a DRAFT bank-sync single-entry pure credit of
\* the ledger, on different GL accounts, of exactly equal amounts and dated at
\* most 2 days apart; its confidence is HIGH exactly when the dates are equal,
\* MEDIUM otherwise; its primary is the one dated earlier or the same day.
C9_SuggestionsAreSound ==
    [][\A l \in RequestLedgers :
        (resp'.op = "chain-suggestions" /\ GetChainSuggestions(l)) =>
            \A i \in 1..Len(resp'.suggestions) :
                LET sg == resp'.suggestions[i]
                    p == sg.primary_transaction_id
                    q == sg.secondary_transaction_id
                    single(id) == /\ id \in DOMAIN txs
                                  /\ txs[id].ledger_id = l
                                  /\ txs[id].status = "DRAFT"
                                  /\ txs[id].source = "BANK_SYNC"
                                  /\ Cardinality(EntriesOf(entries, id)) = 1
                    pure_debit(id) == OnlyEntry(entries, id).debit > 0
                                      /\ OnlyEntry(entries, id).credit = 0
                    pure_credit(id) == OnlyEntry(entries, id).credit > 0
                                       /\ OnlyEntry(entries, id).debit = 0
                    amount(id) == OnlyEntry(entries, id).debit + OnlyEntry(entries, id).credit
                IN /\ single(p)
                   /\ single(q)
                   /\ p # q
                   /\ \/ pure_debit(p) /\ pure_credit(q)
                      \/ pure_credit(p) /\ pure_debit(q)
                   /\ OnlyEntry(entries, p).account_id # OnlyEntry(entries, q).account_id
                   /\ amount(p) = amount(q)
                   /\ sg.amount = amount(p)
                   /\ txs[p].transaction_date <= txs[q].transaction_date
                   /\ txs[q].transaction_date - txs[p].transaction_date <= 2
                   /\ sg.confidence =
                        IF txs[p].transaction_date = txs[q].transaction_date
                        THEN "HIGH" ELSE "MEDIUM"
      ]_vars

\* suggestions were returned, among them a MEDIUM one whose primary is the
\* credit side, dated before the debit
C9_Witness ==
    /\ resp.op = "chain-suggestions"
    /\ \E i \in 1..Len(resp.suggestions) :
        /\ resp.suggestions[i].confidence = "MEDIUM"
        /\ resp.suggestions[i].primary_date < resp.suggestions[i].secondary_date
        /\ resp.suggestions[i].primary_transaction_id \in DOMAIN txs
        /\ OnlyEntry(entries, resp.suggestions[i].primary_transaction_id).credit = 500

\* C10: for every transaction it imports, a sync creates one DRAFT transaction
\* with exactly one entry, on the GL account behind the connection: for an
\* ASSET account an amount > 0 is a debit of |amount| and an amount < 0 a credit
\* of |amount|; for a LIABILITY account the sides are swapped.  The amount is
\* the one the draft builder is given, as stored on the bank_transactions row.
C10_DraftFollowsSignPolicy ==
    [][\A r \in 1..MaxRuns :
        (runs[r].pc = "fetch" /\ runs'[r].pc = "done" /\ resp'.status = "success") =>
            LET c == runs[r].conn
                gl == BankAccountTable[conns[c].bank_account_id].account_id
                new_rows == {k \in (Len(bank_txs) + 1)..Len(bank_txs') :
                                bank_txs'[k].import_status = "IMPORTED"}
            IN /\ Cardinality(CreatedTxs) = Cardinality(new_rows)
               /\ \A k \in new_rows :
                    LET id == bank_txs'[k].imported_transaction_id
                        amount == bank_txs'[k].amount
                    IN /\ id \in CreatedTxs
                       /\ txs'[id].status = "DRAFT"
                       /\ Cardinality(EntriesOf(entries', id)) = 1
                       /\ OnlyEntry(entries', id).account_id = gl
                       /\ LET e == OnlyEntry(entries', id)
                              plus == [debit |-> Abs(amount), credit |-> 0]
                              minus == [debit |-> 0, credit |-> Abs(amount)]
                              side == [debit |-> e.debit, credit |-> e.credit]
                          IN /\ (AccountTypeOf[gl] = "ASSET" /\ amount > 0) => side = plus
                             /\ (AccountTypeOf[gl] = "ASSET" /\ amount < 0) => side = minus
                             /\ (AccountTypeOf[gl] = "LIABILITY" /\ amount > 0) => side = minus
                             /\ (AccountTypeOf[gl] = "LIABILITY" /\ amount < 0) => side = plus
      ]_vars

\* drafts were built on both kinds of account: a debit of 500 on the ASSET
\* account and a credit of 500 on the LIABILITY account, each the only entry of
\* a DRAFT transaction
C10_Witness ==
    /\ resp.op = "sync"
    /\ \E i \in DOMAIN entries, j \in DOMAIN entries :
        /\ entries[i].account_id = 1
        /\ entries[i].debit = 500
        /\ entries[i].credit = 0
        /\ entries[j].account_id = 2
        /\ entries[j].debit = 0
        /\ entries[j].credit = 500
        /\ txs[entries[i].transaction_id].status = "DRAFT"
        /\ txs[entries[j].transaction_id].status = "DRAFT"
        /\ Cardinality(EntriesOf(entries, entries[i].transaction_id)) = 1
        /\ Cardinality(EntriesOf(entries, entries[j].transaction_id)) = 1
\* C4: after complete creates or re-authorizes connection X, every other
\* connection of X's ledger, provider and external bank id that is not
\* DISCONNECTED holds the new session credential and expiry, and is ACTIVE if
\* it was in ERROR; every other connection keeps its credential, external
\* account id and status.
C4_SiblingsGetTheNewSession ==
    [][\A st \in 1..Len(oauth), u \in SelectableIds, b \in BankAccountIds :
        (/\ resp'.op = "select"
         /\ resp'.status = "200"
         /\ SelectAccount(st, u, b))
            => LET existing == ExistingForBankAccount(oauth[st], b)
                   x == IF existing # NoId THEN existing ELSE Len(conns) + 1
               IN \A c \in (1..Len(conns)) \ {x} :
                    IF /\ conns[c].ledger_id = conns'[x].ledger_id
                       /\ conns[c].provider_id = conns'[x].provider_id
                       /\ conns[c].external_bank_id = conns'[x].external_bank_id
                       /\ conns[c].status # "DISCONNECTED"
                    THEN /\ conns'[c].access_token = conns'[x].access_token
                         /\ conns'[c].token_expires_at = conns'[x].token_expires_at
                         /\ conns[c].status = "ERROR" => conns'[c].status = "ACTIVE"
                    ELSE /\ conns'[c].access_token = conns[c].access_token
                         /\ conns'[c].external_account_id = conns[c].external_account_id
                         /\ conns'[c].status = conns[c].status
      ]_vars
\* the step takes run r from the session check to the fetch request
IsWindowStep(r, info) ==
    /\ runs[r].pc = "session"
    /\ SyncSessionReturn(r, info)
    /\ runs'[r].pc = "fetch"

\* C11 (as amended): in an ongoing sync whose caller gave no from_date, the
\* fetch is asked from max(last success date - 1 day, today - 89 days), which is
\* never earlier than today - 89 days; without a to_date from the caller the
\* to_date is today; a date the caller gave is used as given.  The same dates
\* are stored on the run's sync log.
C11_OngoingWindowIsCapped ==
    [][\A r \in 1..MaxRuns, info \in OpsSessionAnswers :
        (/\ runs[r].pc = "session"
         /\ conns[runs[r].conn].last_successful_sync_at # NoDate
         /\ IsWindowStep(r, info))
            => LET last == DateOf(conns[runs[r].conn].last_successful_sync_at)
                   today == DateOf(now)
                   from == runs'[r].from_date
                   to == runs'[r].to_date
               IN /\ IF runs[r].from_date = NoDate
                     THEN /\ from >= today - 89
                          /\ from >= last - 1
                          /\ from \in {today - 89, last - 1}
                          /\ (last = today - LongAgoDays) => from = today - 89
                     ELSE from = runs[r].from_date
                  /\ IF runs[r].to_date = NoDate THEN to = today
                                                 ELSE to = runs[r].to_date
                  /\ sync_logs'[runs[r].log].sync_from_date = from
                  /\ sync_logs'[runs[r].log].sync_to_date = to
      ]_vars

\* a connection that last succeeded 120 days ago is being fetched from
\* today - 89 days to today
C11_Witness ==
    \E r \in 1..MaxRuns :
        /\ runs[r].pc = "fetch"
        /\ conns[runs[r].conn].last_successful_sync_at =
                (OpsToday - LongAgoDays) * MinutesPerDay
        /\ runs[r].from_date = OpsToday - 89
        /\ runs[r].to_date = OpsToday
        /\ sync_logs[runs[r].log].sync_from_date = OpsToday - 89

\* C11 as the spec states it: every ongoing sync is fetched from
\* max(last success date - 1 day, today - 89 days) to today.
C11_EveryOngoingSyncUsesTheWindow ==
    [][\A r \in 1..MaxRuns, info \in OpsSessionAnswers :
        (/\ runs[r].pc = "session"
         /\ conns[runs[r].conn].last_successful_sync_at # NoDate
         /\ IsWindowStep(r, info))
            => LET last == DateOf(conns[runs[r].conn].last_successful_sync_at)
                   today == DateOf(now)
               IN /\ runs'[r].from_date = Max2(last - 1, today - 89)
                  /\ runs'[r].from_date >= today - 89
                  /\ runs'[r].to_date = today
      ]_vars
\* C12: against an upstream that gives a continuation key on pages 1..n-1 and
\* none on page n (1 <= n <= 100), fetch_transactions sends each key it was
\* given with the next request, issues exactly n requests, returns the pages
\* 1..n concatenated in page order, and asks for nothing once it has returned.
C12_PagesConcatenatedInOrder ==
    /\ [](fetch.upstream = "paged" =>
            /\ fetch.requests = fetch.page_num
            /\ fetch.page_num <= PageLimit
            /\ fetch.sent = (IF fetch.page_num = 1 THEN NoKey ELSE <<fetch.page_num>>)
            /\ fetch.pc = "request" =>
                    /\ fetch.sent = fetch.continuation_key
                    /\ fetch.all_transactions = PagesUpTo(fetch.page_num - 1)
            /\ (fetch.pc = "returned" /\ fetch.continuation_key = NoKey) =>
                    /\ fetch.all_transactions = PagesUpTo(fetch.page_num)
                    /\ Len(fetch.all_transactions) = fetch.requests)
    /\ [][fetch.pc \in {"returned", "raised"} => fetch' = fetch]_vars

\* the spec's case: three pages, keys on the first two, returned after three
\* requests with the three pages in order
C12_Witness ==
    /\ fetch.pc = "returned"
    /\ fetch.upstream = "paged"
    /\ fetch.continuation_key = NoKey
    /\ fetch.requests = 3
    /\ fetch.all_transactions = PageOf(1) \o PageOf(2) \o PageOf(3)

\* C13: fetch_transactions ends whatever the upstream does: it never issues
\* more than 100 page requests, and every call in flight returns or raises.
C13_FetchTerminatesWithinPageLimit ==
    /\ [](fetch.requests <= 100)
    /\ (fetch.pc = "request") ~> (fetch.pc \in {"returned", "raised"})

\* an upstream that gave the same key back on every page was left after the
\* hundredth request, the key of that page unused
C13_Witness ==
    /\ fetch.pc = "returned"
    /\ fetch.upstream = "stuck"
    /\ fetch.continuation_key # NoKey
    /\ fetch.requests = 100
    /\ Len(fetch.all_transactions) = 100
\* a text without its blanks and in lower case
NotSpace(ch) == ~IsSpace(ch)
Squash(s) == Lower(SelectSeq(s, NotSpace))

\* two generate_hash calls whose arguments differ at most in the letter case or
\* the whitespace of description and reference
SameButCaseAndBlanks(a, b) ==
    /\ a.transaction_date = b.transaction_date
    /\ a.amount = b.amount
    /\ Squash(a.description) = Squash(b.description)
    /\ Squash(a.reference) = Squash(b.reference)

\* C14: the fingerprint is deterministic, inputs that differ only in the letter
\* case or the whitespace of description or reference have the same
\* fingerprint, and inputs that differ otherwise, in any field, have different
\* fingerprints.
C14_FingerprintSeparatesInputs ==
    \A i \in DOMAIN hashed, j \in DOMAIN hashed :
        /\ hashed[i].digest = GenerateHash(hashed[i].transaction_date, hashed[i].amount,
                                           hashed[i].description, hashed[i].reference)
        /\ SameButCaseAndBlanks(hashed[i], hashed[j])
                <=> hashed[i].digest = hashed[j].digest
\* C15: a sync requested on a DISCONNECTED connection is turned away: no run
\* is started, so no provider call is made, no sync log, fetched transaction,
\* ledger transaction or entry is stored, and the connection is left as it is,
\* DISCONNECTED.
C15_DisconnectedSyncIsRejected ==
    [][\A r \in 1..MaxRuns, c \in 1..Len(conns), range \in OpsRanges :
        (/\ conns[c].status = "DISCONNECTED"
         /\ ManualSync(r, c, range[1], range[2]))
            => /\ resp'.op = "sync"
               /\ resp'.status = "400"
               /\ runs' = runs
               /\ conns' = conns
               /\ conns'[c].status = "DISCONNECTED"
               /\ UNCHANGED <<sync_logs, bank_txs, txs, entries, tx_seq, entry_seq>>
      ]_vars

\* a sync was asked for on a disconnected connection and answered with 400
C15_Witness ==
    /\ resp.op = "sync"
    /\ resp.status = "400"
    /\ conns[resp.conn].status = "DISCONNECTED"
    /\ conns[resp.conn].access_token = None
\* the first three error cases of complete: the token is unknown or past its
\* expiry, the selected id is not in the token's cached list, or the bank
\* account is not an active one of the token's ledger
CompleteMustFail(st, u, b) ==
    IF st \notin 1..Len(oauth) THEN TRUE
    ELSE LET state == oauth[st]
             cached == IF state.accounts_data = <<>> THEN <<>>
                       ELSE state.accounts_data[1].accounts
         IN \/ state.expires_at < now
            \/ \A i \in 1..Len(cached) : cached[i].account_id # u
            \/ b \notin BankAccountIds
            \/ BankAccountTable[b].ledger_id # state.ledger_id
            \/ ~BankAccountTable[b].is_active

\* bank account b has no connection in the token's ledger
NoConnectionYet(st, b) ==
    \A c \in 1..Len(conns) : ~(/\ conns[c].bank_account_id = b
                                /\ conns[c].ledger_id = oauth[st].ledger_id)

\* C16 as stated: complete answers with an error and leaves every connection
\* as it was when the token is unknown or expired, the selected id is not in
\* the cached list, the bank account is not an active one of the token's
\* ledger, or the bank account has no connection yet and the selected external
\* account sits under an ACTIVE connection of another bank account.
C16_FailsWhenLinkedAnywhere ==
    [][\A st \in 1..(MaxStates + 1), u \in SelectableIds, b \in BankAccountIds :
        \/ /\ resp'.status = "400"
           /\ conns' = conns
        \/ ~(/\ resp'.op = "select"
              /\ \/ CompleteMustFail(st, u, b)
                 \/ /\ NoConnectionYet(st, b)
                    /\ \E c \in 1..Len(conns) : /\ conns[c].external_account_id = u
                                                  /\ conns[c].bank_account_id # b
                                                  /\ conns[c].status = "ACTIVE"
              /\ SelectAccount(st, u, b))
      ]_vars

\* C16, amended: the same, where the ACTIVE connection that holds the selected
\* external account is one of the token's ledger and provider.
C16_CompleteFailsWithoutTouchingConnections ==
    [][\A st \in 1..(MaxStates + 1), u \in SelectableIds, b \in BankAccountIds :
        \/ /\ resp'.status = "400"
           /\ conns' = conns
        \/ ~(/\ resp'.op = "select"
              /\ \/ CompleteMustFail(st, u, b)
                 \/ /\ NoConnectionYet(st, b)
                    /\ \E c \in 1..Len(conns) :
                            /\ conns[c].external_account_id = u
                            /\ conns[c].bank_account_id # b
                            /\ conns[c].status = "ACTIVE"
                            /\ conns[c].ledger_id = oauth[st].ledger_id
                            /\ conns[c].provider_id = oauth[st].provider_id
              /\ SelectAccount(st, u, b))
      ]_vars

\* the last case: a selection was refused while the token was known, in
\* time and held the selected id, and an ACTIVE connection of another bank
\* account holds that id
C16_Witness ==
    /\ resp.op = "select"
    /\ resp.status = "400"
    /\ \E st \in 1..Len(oauth), u \in SelectableIds, b \in BankAccountIds :
        /\ oauth[st].expires_at >= now
        /\ oauth[st].accounts_data # <<>>
        /\ \E i \in 1..Len(oauth[st].accounts_data[1].accounts) :
                oauth[st].accounts_data[1].accounts[i].account_id = u
        /\ BankAccountTable[b].ledger_id = oauth[st].ledger_id
        /\ BankAccountTable[b].is_active
        /\ \A c \in 1..Len(conns) : conns[c].bank_account_id # b
        /\ \E c \in 1..Len(conns) : /\ conns[c].external_account_id = u
                                      /\ conns[c].bank_account_id # b
                                      /\ conns[c].ledger_id = oauth[st].ledger_id
                                      /\ conns[c].status = "ACTIVE"
\* C17: handle_callback accepts a state token only if it exists, is not marked
\* used and is within its validity window; any other token is refused and
\* nothing is cached on it.  An accepted token gets the account list and the
\* session cached and its expiry set to 30 minutes from now.
C17_CallbackAcceptsOnlyValidTokens ==
    [][\A st \in 1..(MaxStates + 1) : \A a \in ExchangeAnswers(st) :
        (/\ resp'.op = "callback"
         /\ OauthCallback(st, a))
            => IF /\ st \in 1..Len(oauth)
                  /\ oauth[st].used_at = NoDate
                  /\ oauth[st].expires_at >= now
               THEN resp'.status = "select"
                        => /\ oauth'[st].accounts_data # <<>>
                           /\ oauth'[st].accounts_data[1].accounts = a.accounts
                           /\ oauth'[st].accounts_data[1].access_token = a.access_token
                           /\ oauth'[st].expires_at = now + SelectMinutes
               ELSE /\ resp'.status # "select"
                    /\ oauth' = oauth
      ]_vars
\* C18: when disconnect returns, the connection is DISCONNECTED and its session
\* credential, refresh credential and expiry are cleared, whether the revoke
\* call succeeded, failed or was never made; the request is answered normally
\* in all three cases.
C18_DisconnectAlwaysClears ==
    [][\A l \in LedgerIds, c \in 1..Len(conns), v \in RevokeAnswers :
        (/\ resp'.op = "disconnect"
         /\ conns[c].ledger_id = l
         /\ DisconnectBank(l, c, v))
            => /\ resp'.status = "200"
               /\ resp'.revoke \in {"revoked", "failed", "not attempted"}
               /\ conns'[c].status = "DISCONNECTED"
               /\ conns'[c].access_token = None
               /\ conns'[c].refresh_token = None
               /\ conns'[c].token_expires_at = NoDate
      ]_vars

\* a connection that held a session was disconnected while the revoke call
\* failed
C18_Witness ==
    /\ resp.op = "disconnect"
    /\ resp.status = "200"
    /\ resp.revoke = "failed"
    /\ \E c \in 1..Len(conns) : /\ conns[c].status = "DISCONNECTED"
                                  /\ conns[c].access_token = None
                                  /\ conns[c].token_expires_at = NoDate
\* C19: there is at most one connection per (ledger, bank account), and a
\* complete that succeeds on a bank account which already has a connection
\* adds none: that connection gets the new session credential, the selected
\* external account id and status ACTIVE.
C19_OneConnectionPerBankAccount ==
    /\ [](\A c, d \in 1..Len(conns) :
            (/\ conns[c].ledger_id = conns[d].ledger_id
             /\ conns[c].bank_account_id = conns[d].bank_account_id) => c = d)
    /\ [][\A st \in 1..Len(oauth), u \in SelectableIds, b \in BankAccountIds :
            (/\ resp'.op = "select"
             /\ resp'.status = "200"
             /\ \E c \in 1..Len(conns) : /\ conns[c].bank_account_id = b
                                           /\ conns[c].ledger_id = oauth[st].ledger_id
             /\ SelectAccount(st, u, b))
                => /\ Len(conns') = Len(conns)
                   /\ \E c \in 1..Len(conns) :
                        /\ conns[c].bank_account_id = b
                        /\ conns[c].ledger_id = oauth[st].ledger_id
                        /\ conns'[c].bank_account_id = b
                        /\ conns'[c].ledger_id = conns[c].ledger_id
                        /\ conns'[c].access_token =
                                Encrypt(oauth[st].accounts_data[1].access_token)
                        /\ conns'[c].external_account_id = u
                        /\ conns'[c].status = "ACTIVE"
          ]_vars

\* the only connection was created for one bank and now holds the session of
\* the second authorization, which was started for another bank: it was updated
\* in place
C19_Witness ==
    /\ resp.op = "select"
    /\ resp.status = "200"
    /\ Len(conns) = 1
    /\ Len(oauth) = 2
    /\ conns[1].status = "ACTIVE"
    /\ conns[1].access_token = Encrypt("sess-2")
    /\ conns[1].external_account_id = "uid-9"
    /\ conns[1].external_bank_id # oauth[2].external_bank_id
\* C20: no two ACTIVE connections of the same ledger and provider that are
\* bound to different bank accounts have the same external account id.
C20_ExternalAccountLinkedOnce ==
    \A c, d \in 1..Len(conns) :
        (/\ conns[c].status = "ACTIVE"
         /\ conns[d].status = "ACTIVE"
         /\ conns[c].ledger_id = conns[d].ledger_id
         /\ conns[c].provider_id = conns[d].provider_id
         /\ conns[c].bank_account_id # conns[d].bank_account_id)
            => conns[c].external_account_id # conns[d].external_account_id
\* C26: a chain of two different DRAFT single-entry transactions of the ledger
\* whose two entries would not balance (total debit of the two entries differs
\* from their total credit) is answered with a validation error and leaves
\* transactions, entries and bank_transactions rows as they were.
C26_UnbalancedChainRejected ==
    [][\A l \in RequestLedgers, p \in RequestIds, q \in RequestIds, a \in BOOLEAN :
        (/\ resp'.op = "chain"
         /\ p \in DOMAIN txs
         /\ q \in DOMAIN txs
         /\ p # q
         /\ txs[p].ledger_id = l
         /\ txs[q].ledger_id = l
         /\ txs[p].status = "DRAFT"
         /\ txs[q].status = "DRAFT"
         /\ Cardinality(EntriesOf(entries, p)) = 1
         /\ Cardinality(EntriesOf(entries, q)) = 1
         /\ OnlyEntry(entries, p).debit + OnlyEntry(entries, q).debit
                # OnlyEntry(entries, p).credit + OnlyEntry(entries, q).credit
         /\ ChainTransactions(l, p, q, a))
            => /\ resp'.status = "400"
               /\ UNCHANGED <<txs, entries, bank_txs>>
      ]_vars
\* C27: after any chain call, accepted or rejected, every journal entry that
\* existed before the call still exists and belongs to an existing transaction;
\* a call whose primary and secondary are the same transaction does not delete
\* that transaction.
C27_ChainKeepsEveryEntryOwned ==
    [][resp'.op = "chain" =>
        /\ DOMAIN entries \subseteq DOMAIN entries'
        /\ \A j \in DOMAIN entries : entries'[j].transaction_id \in DOMAIN txs'
        /\ \A l \in RequestLedgers, p \in DOMAIN txs, a \in BOOLEAN :
                ChainTransactions(l, p, p, a) => (p \in DOMAIN txs' /\ entries' = entries)
      ]_vars

\* a chain naming one DRAFT single-entry transaction as both primary and
\* secondary has been answered, and the transaction and its entry are there
C27_Witness ==
    /\ resp.op = "chain"
    /\ resp.status = "500"
    /\ \E id \in DOMAIN txs :
        /\ txs[id].status = "DRAFT"
        /\ Cardinality(EntriesOf(entries, id)) = 1
\* the transactions suggestion sg names
PairOf(sg) == {sg.primary_transaction_id, sg.secondary_transaction_id}

\* C29: in the result of one find_chain_candidates call no transaction appears
\* in two suggestions; chaining any one of the suggestions succeeds, leaves its
\* primary with two entries and total debit equal to total credit, and leaves
\* every other suggestion of that result a suggestion of the next result, so
\* that the suggestions can be chained one after another in any order.
C29_SuggestionsChainInAnyOrder ==
    [][(resp'.op = "chain" \/ resp'.op = "chain-suggestions") =>
        \A l \in RequestLedgers :
            LET found == FindChainCandidates(txs, entries, l)
            IN /\ \A i, k \in 1..Len(found) :
                    i # k => PairOf(found[i]) \cap PairOf(found[k]) = {}
               /\ \A i \in 1..Len(found), a \in BOOLEAN :
                    LET p == found[i].primary_transaction_id
                        q == found[i].secondary_transaction_id
                    IN (resp'.op = "chain" /\ ChainTransactions(l, p, q, a)) =>
                        /\ resp'.status = "200"
                        /\ Cardinality(EntriesOf(entries', p)) = 2
                        /\ TotalDebit(entries', p) = TotalCredit(entries', p)
                        /\ LET later == FindChainCandidates(txs', entries', l)
                           IN \A k \in 1..Len(found) :
                                k # i => \E m \in 1..Len(later) :
                                    /\ later[m].primary_transaction_id
                                            = found[k].primary_transaction_id
                                    /\ later[m].secondary_transaction_id
                                            = found[k].secondary_transaction_id
      ]_vars

\* one suggestion of a result has been chained into a balanced two-entry
\* transaction and another suggestion is still offered for two others
C29_Witness ==
    /\ resp.op = "chain"
    /\ resp.status = "200"
    /\ \E l \in RequestLedgers :
        LET found == FindChainCandidates(txs, entries, l)
        IN /\ Len(found) >= 1
           /\ \E id \in DOMAIN txs :
                /\ id \notin PairOf(found[1])
                /\ Cardinality(EntriesOf(entries, id)) = 2
                /\ TotalDebit(entries, id) = TotalCredit(entries, id)
                /\ TotalDebit(entries, id) = found[1].amount
C22_RowsUniquePerConnection ==
    [][\A r \in 1..MaxRuns :
        (runs[r].pc = "fetch" /\ runs'[r].pc = "done" /\ resp'.status = "success") =>
            LET new == (Len(bank_txs) + 1)..Len(bank_txs')
                imported == {k \in new : bank_txs'[k].import_status = "IMPORTED"}
                linked == {k \in new : bank_txs'[k].import_status = "DUPLICATE"}
            IN /\ \A k \in new, i \in 1..Len(bank_txs') :
                    (/\ i # k
                     /\ bank_txs'[i].bank_connection_id = bank_txs'[k].bank_connection_id)
                        => /\ bank_txs'[i].external_transaction_id
                                # bank_txs'[k].external_transaction_id
                           /\ bank_txs'[i].dedup_hash # bank_txs'[k].dedup_hash
               /\ Cardinality(DOMAIN txs' \ DOMAIN txs) = Cardinality(imported)
               /\ resp'.imported = Cardinality(imported)
               /\ resp'.transactions_fetched
                    = Cardinality(new) + Len(resp'.errors)
                        + (resp'.duplicates - Cardinality(linked))
      ]_vars

\* a page listed one receipt under two entry references: the run stored a row
\* for the first only and counted the second as a duplicate
C22_Witness ==
    /\ resp.op = "sync"
    /\ resp.status = "success"
    /\ resp.transactions_fetched = 3
    /\ resp.imported = 2
    /\ resp.duplicates = 1
    /\ Len(bank_txs) = 2
    /\ Cardinality(DOMAIN txs) = 2
    /\ \E i \in 1..Len(bank_txs) :
        /\ bank_txs[i].external_transaction_id = T1.external_id
        /\ bank_txs[i].dedup_hash
            = GenerateHash(T9.date, bank_txs[i].amount, T9.description, T9.reference)
    /\ \A i \in 1..Len(bank_txs) : bank_txs[i].external_transaction_id # T9.external_id
\* C23: a connection that disconnect has set to DISCONNECTED, its credentials
\* cleared, keeps that status and the cleared credentials through every step
\* of a sync run, also of a run that was waiting for the provider when the
\* disconnect ran (no complete takes place in SpecOps).
C23_DisconnectedStaysDisconnected ==
    [][\A c \in 1..Len(conns) :
        (conns[c].status = "DISCONNECTED" /\ conns[c].access_token = None)
            => (conns'[c].status = "DISCONNECTED" /\ conns'[c].access_token = None)
      ]_vars
C30_InitialSyncAsksForFullHistory ==
    [][\A u \in Upstreams, range \in FetchRanges :
        (fetch.pc = "idle" /\ FetchTransactions(u, range[1], range[2]))
            => fetch'.date_from = range[1]
      ]_vars
\* C25: a transaction of the batch that cannot be processed is listed in the
\* run's errors and does not abort the batch: every other transaction of the
\* batch, before or after it, is stored for the connection as IMPORTED or
\* DUPLICATE, and the run ends with the success effects (connection ACTIVE,
\* timestamps set, error cleared, sync log SUCCESS with the counts).
C25_FailureDoesNotAbortTheBatch ==
    [][\A r \in 1..MaxRuns, b \in FailBatches :
        (runs[r].pc = "fetch" /\ SyncFetchReturn(r, [kind |-> "ok", transactions |-> b])) =>
            /\ EndedSuccess(runs[r].conn, runs[r].log)
            /\ Len(resp'.errors) = Cardinality({i \in 1..Len(b) : ~Processable(b[i])})
            /\ sync_logs'[runs[r].log].transactions_imported = resp'.imported
            /\ sync_logs'[runs[r].log].transactions_duplicate = resp'.duplicates
            /\ \A i \in 1..Len(b) :
                Processable(b[i]) =>
                    \E k \in 1..Len(bank_txs') :
                        /\ bank_txs'[k].bank_connection_id = runs[r].conn
                        /\ bank_txs'[k].external_transaction_id = b[i].external_id
                        /\ bank_txs'[k].import_status \in {"IMPORTED", "DUPLICATE"}
      ]_vars
\* C21: every bank_transactions row that is persisted has import status
\* IMPORTED or DUPLICATE and links to an existing ledger transaction; no row is
\* left PENDING without one, also after a run in which the processing of a
\* transaction raised once its row had been stored.
C21_NoRowLeftPending ==
    \A k \in 1..Len(bank_txs) :
        /\ bank_txs[k].import_status \in {"IMPORTED", "DUPLICATE"}
        /\ bank_txs[k].imported_transaction_id \in DOMAIN txs

\* a run has ended in which the draft of a transaction could not be flushed
\* after its row had been stored; rows of an earlier run are persisted, none of
\* them for that transaction
C21_Witness ==
    /\ resp.op = "sync"
    /\ resp.status = "500"
    /\ resp.original = "DataError"
    /\ Len(bank_txs) > 0
    /\ \A k \in 1..Len(bank_txs) : bank_txs[k].external_transaction_id # TL.external_id
====
